---- MODULE Spec2Model ----
(***************************************************************************)
(* A model of parseDsl, the line-oriented wireframe DSL parser.            *)
(*                                                                         *)
(* Source lines are TLA+ strings and every regular expression of the       *)
(* parser is evaluated character by character, so the text of a line, not  *)
(* a pre-classified token, decides what the parser does with it.           *)
(* Objects created by the parser (screens, stacks, components) live in a   *)
(* heap keyed by the line that created them: the context stack and the     *)
(* children lists hold references (heap keys), as the JavaScript arrays    *)
(* hold object references.                                                 *)
(***************************************************************************)
EXTENDS Integers, Sequences, FiniteSets, TLC

VARIABLES
    pc,               \* "idle": no call running; "loop": in the for loop; "done": returned
    code,             \* the argument of the running (or last) parseDsl call
    lineNumber,       \* let lineNumber
    contextStack,     \* const contextStack: <<[container |-> heap key, baseIndent |-> n]>>
    heap,             \* the Screen / Stack / BasicComponent objects, keyed by creating line
    screens,          \* result.screens (heap keys)
    navigationStacks, \* result.navigationStacks
    links,            \* result.links
    errors,           \* result.errors
    pops,             \* contextStack.pop() calls made while handling the last line
    returned,         \* the ParseResult returned by the last completed call
    history,          \* <<code, ParseResult>> of every completed call
    doc,              \* Editor: view.state.doc, the lines of the editor's document
    editorErrors,     \* Editor: the errors prop handed to dslLinter
    diagnostics,      \* Editor: what dslLinter returned
    element,          \* Renderer: the DslElement handed to renderDslElement
    rendered,         \* Renderer: the React element it returned
    dslCode,          \* App: useState(initialCode)
    parseOutput,      \* App: useState<ParseResult>, with the parseDsl call it came from
    activeScreen,     \* App: useState<DslScreen | null>
    viewMode,         \* App: useState<ViewMode>
    timers,           \* App: the pending setTimeout handlers, with what they closed over
    handler,          \* App: the timer id the effect's cleanup will clear
    parses,           \* App: parseDsl calls made by timers so far
    root,             \* App: how it is mounted, ReactDOM.render or createRoot
    updates,          \* App: state updates queued for the next render
    callback,         \* App: what the running timer callback has still to call
    effectDeps,       \* App: the dependencies the effect last ran with
    storyboard,       \* StoryboardCanvas: its props screens and links
    nodePositions     \* StoryboardCanvas: useState<Record<string, NodePosition>>

parserVars == <<pc, code, lineNumber, contextStack, heap, screens, navigationStacks,
                links, errors, pops, returned, history>>
editorVars == <<doc, editorErrors, diagnostics>>
rendererVars == <<element, rendered>>
appVars == <<dslCode, parseOutput, activeScreen, viewMode, timers, handler, parses,
             root, updates, callback, effectDeps>>

canvasVars == <<storyboard, nodePositions>>

vars == <<parserVars, editorVars, rendererVars, appVars, canvasVars>>

-----------------------------------------------------------------------------
(* Strings as character sequences.                                         *)

Char(s, i) == SubSeq(s, i, i)

CharsOf(s) == {Char(s, i) : i \in 1..Len(s)}

UpperLetters == "ABCDEFGHIJKLMNOPQRSTUVWXYZ"
LowerLetters == "abcdefghijklmnopqrstuvwxyz"
Digits == "0123456789"

\* The characters JavaScript's \s and trim() treat as white space, as far as
\* a TLA+ string can hold them: space, tab, carriage return, form feed, line
\* feed, and, written as the characters themselves, the vertical tab U+000B,
\* the no-break space U+00A0, the ogham space mark U+1680 and the byte order
\* mark U+FEFF. U+2000 to U+200A, U+2028, U+2029, U+202F, U+205F and U+3000
\* are white space too and cannot be written in a string of this language.
WhiteSpace == {" ", "\t", "\r", "\f", "\n", "", " ", " ", "﻿"}

\* \w
WordChars == CharsOf(UpperLetters) \cup CharsOf(LowerLetters) \cup CharsOf(Digits) \cup {"_"}

\* [\w-]
NameChars == WordChars \cup {"-"}

\* [\w\s,-]
TabListChars == WordChars \cup WhiteSpace \cup {",", "-"}

\* the /i flag: letters compare by their lower-case form
LowerOf == [c \in CharsOf(UpperLetters) |->
                Char(LowerLetters, CHOOSE i \in 1..Len(UpperLetters) : Char(UpperLetters, i) = c)]

LowerCase(c) == IF c \in DOMAIN LowerOf THEN LowerOf[c] ELSE c

\* Positions are 1-based indexes of the next character to read; 0 is "no match".

\* [class]* from p, greedy: the first position at or after p whose character
\* is not in the class
RECURSIVE Star(_, _, _)
Star(s, p, class) ==
    IF p = 0 THEN 0
    ELSE IF p <= Len(s) /\ Char(s, p) \in class THEN Star(s, p + 1, class)
    ELSE p

\* [class]+ from p, greedy
Plus(s, p, class) ==
    LET q == Star(s, p, class) IN IF q > p THEN q ELSE 0

\* [^excluded]* from p, greedy
RECURSIVE StarNot(_, _, _)
StarNot(s, p, excluded) ==
    IF p = 0 THEN 0
    ELSE IF p <= Len(s) /\ Char(s, p) \notin excluded THEN StarNot(s, p + 1, excluded)
    ELSE p

\* a literal from p, compared case-insensitively
Lit(s, p, lit) ==
    IF /\ p # 0
       /\ p + Len(lit) - 1 <= Len(s)
       /\ \A i \in 1..Len(lit) : LowerCase(Char(s, p + i - 1)) = LowerCase(Char(lit, i))
    THEN p + Len(lit)
    ELSE 0

\* $ at p
AtEnd(s, p) == p # 0 /\ p = Len(s) + 1

NoMatch == [ok |-> FALSE, g1 |-> "", g2 |-> ""]
Match(a, b) == [ok |-> TRUE, g1 |-> a, g2 |-> b]

\* String.prototype.trimEnd / trimStart / trim
RECURSIVE trimEnd(_)
trimEnd(s) ==
    IF Len(s) > 0 /\ Char(s, Len(s)) \in WhiteSpace THEN trimEnd(SubSeq(s, 1, Len(s) - 1)) ELSE s

trimStart(s) == SubSeq(s, Star(s, 1, WhiteSpace), Len(s))

trim(s) == trimEnd(trimStart(s))

\* line.match(/^\s*/)?.[0].length || 0
countIndentation(line) == Star(line, 1, WhiteSpace) - 1

-----------------------------------------------------------------------------
(* The regular expressions of the parser.                                  *)

\* /^screen\s+([\w-]+)\s*$/i
screenRegex(s) ==
    LET p1 == Lit(s, 1, "screen")
        p2 == Plus(s, p1, WhiteSpace)
        p3 == Plus(s, p2, NameChars)
        p4 == Star(s, p3, WhiteSpace)
    IN  IF AtEnd(s, p4) THEN Match(SubSeq(s, p2, p3 - 1), "") ELSE NoMatch

\* /^<keyword>\s+"([^"]*)"\s*$/i, the shape of labelRegex and buttonRegex
QuotedArgRegex(s, keyword) ==
    LET p1 == Lit(s, 1, keyword)
        p2 == Plus(s, p1, WhiteSpace)
        p3 == Lit(s, p2, "\"")
        p4 == StarNot(s, p3, {"\""})
        p5 == Lit(s, p4, "\"")
        p6 == Star(s, p5, WhiteSpace)
    IN  IF AtEnd(s, p6) THEN Match(SubSeq(s, p3, p4 - 1), "") ELSE NoMatch

\* /^label\s+"([^"]*)"\s*$/i
labelRegex(s) == QuotedArgRegex(s, "label")

\* /^button\s+"([^"]*)"\s*$/i
buttonRegex(s) == QuotedArgRegex(s, "button")

\* /^input(?:\s+placeholder="([^"]*)")?\s*$/i
\* g1 is the placeholder; without the optional group match[1] is undefined and
\* the parser stores match[1] || '', which is "" either way.
inputRegex(s) ==
    LET p1 == Lit(s, 1, "input")
        p2 == Plus(s, p1, WhiteSpace)
        p3 == Lit(s, p2, "placeholder=\"")
        p4 == StarNot(s, p3, {"\""})
        p5 == Lit(s, p4, "\"")
        p6 == Star(s, p5, WhiteSpace)
        q2 == Star(s, p1, WhiteSpace)
    IN  IF AtEnd(s, p6) THEN Match(SubSeq(s, p3, p4 - 1), "")
        ELSE IF AtEnd(s, q2) THEN Match("", "")
        ELSE NoMatch

\* /^image\s+src="([^"]*)"\s*$/i
imageRegex(s) ==
    LET p1 == Lit(s, 1, "image")
        p2 == Plus(s, p1, WhiteSpace)
        p3 == Lit(s, p2, "src=\"")
        p4 == StarNot(s, p3, {"\""})
        p5 == Lit(s, p4, "\"")
        p6 == Star(s, p5, WhiteSpace)
    IN  IF AtEnd(s, p6) THEN Match(SubSeq(s, p3, p4 - 1), "") ELSE NoMatch

\* /^<keyword>\s*{\s*$/i, the shape of the two stack start expressions
StackStartRegex(s, keyword) ==
    LET p1 == Lit(s, 1, keyword)
        p2 == Star(s, p1, WhiteSpace)
        p3 == Lit(s, p2, "{")
        p4 == Star(s, p3, WhiteSpace)
    IN  AtEnd(s, p4)

\* /^vertical_stack\s*{\s*$/i
verticalStackStartRegex(s) == StackStartRegex(s, "vertical_stack")

\* /^horizontal_stack\s*{\s*$/i
horizontalStackStartRegex(s) == StackStartRegex(s, "horizontal_stack")

\* /^}\s*$/i
stackEndRegex(s) ==
    LET p1 == Lit(s, 1, "}")
        p2 == Star(s, p1, WhiteSpace)
    IN  AtEnd(s, p2)

\* /^navigation_stack\s+root=([\w-]+)\s*$/i
navigationStackRegex(s) ==
    LET p1 == Lit(s, 1, "navigation_stack")
        p2 == Plus(s, p1, WhiteSpace)
        p3 == Lit(s, p2, "root=")
        p4 == Plus(s, p3, NameChars)
        p5 == Star(s, p4, WhiteSpace)
    IN  IF AtEnd(s, p5) THEN Match(SubSeq(s, p3, p4 - 1), "") ELSE NoMatch

\* /^tab_stack\s+tabs=\[([\w\s,-]+)\]\s*$/i
tabStackRegex(s) ==
    LET p1 == Lit(s, 1, "tab_stack")
        p2 == Plus(s, p1, WhiteSpace)
        p3 == Lit(s, p2, "tabs=[")
        p4 == Plus(s, p3, TabListChars)
        p5 == Lit(s, p4, "]")
        p6 == Star(s, p5, WhiteSpace)
    IN  IF AtEnd(s, p6) THEN Match(SubSeq(s, p3, p4 - 1), "") ELSE NoMatch

\* /^drawer_stack\s+root=([\w-]+)\s+drawer=([\w-]+)\s*$/i
drawerStackRegex(s) ==
    LET p1 == Lit(s, 1, "drawer_stack")
        p2 == Plus(s, p1, WhiteSpace)
        p3 == Lit(s, p2, "root=")
        p4 == Plus(s, p3, NameChars)
        p5 == Plus(s, p4, WhiteSpace)
        p6 == Lit(s, p5, "drawer=")
        p7 == Plus(s, p6, NameChars)
        p8 == Star(s, p7, WhiteSpace)
    IN  IF AtEnd(s, p8) THEN Match(SubSeq(s, p3, p4 - 1), SubSeq(s, p6, p7 - 1))
        ELSE NoMatch

\* /^([\w-]+)\s*->\s*([\w-]+)\s*$/i
\* "-" is a name character, so the first group backtracks: it is the longest
\* run of name characters after which \s*-> and the rest still match.
screenLinkRegex(s) ==
    LET Rest(q) ==
            LET p2 == Star(s, q, WhiteSpace)
                p3 == Lit(s, p2, "->")
                p4 == Star(s, p3, WhiteSpace)
                p5 == Plus(s, p4, NameChars)
                p6 == Star(s, p5, WhiteSpace)
            IN  [ok |-> AtEnd(s, p6), from |-> p4, to |-> p5]
        ends == {q \in 2..Star(s, 1, NameChars) : Rest(q).ok}
    IN  IF ends = {} THEN NoMatch
        ELSE LET q == CHOOSE e \in ends : \A f \in ends : f <= e
             IN  Match(SubSeq(s, 1, q - 1), SubSeq(s, Rest(q).from, Rest(q).to - 1))

\* /^\s*$/
emptyLineRegex(s) == AtEnd(s, Star(s, 1, WhiteSpace))

\* commentRegex for a comment sign in the first column only
commentRegexAtStart(s) == Lit(s, 1, "//") # 0 \/ Lit(s, 1, "#") # 0

\* /^\s*(\/\/|#).*/
commentRegex(s) ==
    LET p1 == Star(s, 1, WhiteSpace)
    IN  Lit(s, p1, "//") # 0 \/ Lit(s, p1, "#") # 0

\* The three tests on an image src (line 220):
\* /^(https|http|ftp):\/\//i, /^\/[^\/]/i, /^[\w-]+\.(png|jpg|jpeg|gif|svg)$/i
ImageSrcAllowed(src) ==
    \/ \E scheme \in {"https://", "http://", "ftp://"} : Lit(src, 1, scheme) # 0
    \/ (Lit(src, 1, "/") # 0 /\ Len(src) >= 2 /\ Char(src, 2) # "/")
    \/ LET p1 == Plus(src, 1, NameChars)
           p2 == Lit(src, p1, ".")
       IN  \E ext \in {"png", "jpg", "jpeg", "gif", "svg"} : AtEnd(src, Lit(src, p2, ext))

-----------------------------------------------------------------------------
(* Small string functions used by the parser.                              *)

\* code.split('\n')
RECURSIVE split(_)
split(s) ==
    LET nl == StarNot(s, 1, {"\n"})
    IN  IF nl = Len(s) + 1 THEN <<s>>
        ELSE <<SubSeq(s, 1, nl - 1)>> \o split(SubSeq(s, nl + 1, Len(s)))

\* match[1].split(',')
RECURSIVE splitOnComma(_)
splitOnComma(s) ==
    LET k == StarNot(s, 1, {","})
    IN  IF k = Len(s) + 1 THEN <<s>>
        ELSE <<SubSeq(s, 1, k - 1)>> \o splitOnComma(SubSeq(s, k + 1, Len(s)))

\* .map(t => t.trim()).filter(t => t.length > 0)
TabNames(list) ==
    LET NonEmpty(t) == Len(t) > 0
    IN  SelectSeq([i \in 1..Len(splitOnComma(list)) |-> trim(splitOnComma(list)[i])], NonEmpty)

\* replaceStackEnd that replaces nothing
replaceStackEndKept(s) == s

\* lineContent.replace(stackEndRegex, ''): the expression is anchored at both
\* ends, so a match is the whole string.
replaceStackEnd(s) == IF stackEndRegex(s) THEN "" ELSE s

\* type.replace('_', ' '): a string pattern replaces the first occurrence only
replaceUnderscore(s) ==
    LET k == StarNot(s, 1, {"_"})
    IN  IF k = Len(s) + 1 THEN s
        ELSE SubSeq(s, 1, k - 1) \o " " \o SubSeq(s, k + 1, Len(s))

-----------------------------------------------------------------------------
(* Diagnostics (the message templates of the parser).                      *)

ParseError(ln, msg) == [lineNumber |-> ln, message |-> msg]

MsgOnlyOneNavLong ==
    "Only one global navigation construct (navigation_stack, tab_stack, or drawer_stack) is allowed."
MsgOnlyOneNav == "Only one global navigation construct is allowed."
MsgEmptyTabs == "tab_stack must define at least one tab screen name."
MsgDuplicateScreen(name) == "Duplicate screen name: " \o name
MsgTopLevel(lineContent) == "Unexpected content at top level: \"" \o lineContent \o "\""
MsgMisplacedBrace(type, baseIndent, currentIndent) ==
    "Misplaced closing brace '}' for stack '" \o type \o "'. Expected at indent "
        \o ToString(baseIndent) \o ", found at " \o ToString(currentIndent) \o "."
MsgContentAfterBrace == "Unexpected content after closing brace '}' on the same line."
MsgBraceInScreen == "Extraneous closing brace '}' not valid within a screen context."
MsgExtraneousBrace == "Extraneous or misplaced closing brace '}'."
MsgIndentation(expected, display, currentIndent) ==
    "Incorrect indentation. Expected at least " \o ToString(expected)
        \o " spaces for content within '" \o display \o "'. Found "
        \o ToString(currentIndent) \o " spaces."
MsgImageSrc(src) == "Invalid image src: \"" \o src \o "\"."
MsgInvalidSyntax(display, lineContent) ==
    "Invalid syntax or misplaced content within '" \o display \o "': \"" \o lineContent \o "\""
MsgUnclosed(type) ==
    "Unclosed " \o replaceUnderscore(type) \o " block started on this line (missing '}'?)."
MsgLinkSource(name) == "Source screen \"" \o name \o "\" in link not defined."
MsgLinkDestination(name) == "Destination screen \"" \o name \o "\" in link not defined."

-----------------------------------------------------------------------------
(* The parser state and the objects it creates.                            *)

\* The fixed indentation unit of "activeContext.baseIndent + 2"
IndentUnit == 2

\* The locals of one parseDsl call, as one record.
Cur == [lineNumber |-> lineNumber, contextStack |-> contextStack, heap |-> heap,
        screens |-> screens, navigationStacks |-> navigationStacks,
        links |-> links, errors |-> errors, pops |-> pops]

\* FreshErrors with the array of the previous call kept
StaleErrors == errors

\* const result = { screens: [], navigationStacks: [], links: [], errors: [] },
\* const contextStack = [], let lineNumber = 0
FreshErrors == <<>>
FreshState == [lineNumber |-> 0, contextStack |-> <<>>, heap |-> <<>>,
               screens |-> <<>>, navigationStacks |-> <<>>,
               links |-> <<>>, errors |-> FreshErrors, pops |-> 0]

\* heap with a new object under key ln
Alloc(hp, ln, obj) == [k \in (DOMAIN hp) \cup {ln} |-> IF k = ln THEN obj ELSE hp[k]]

NewScreen(name, ln) == [kind |-> "screen", name |-> name, components |-> <<>>, lineNumber |-> ln]
\* NewStack with the 0-based index of the line as lineNumber
NewStackZeroBased(type, ln) ==
    [kind |-> "stack", type |-> type, components |-> <<>>, lineNumber |-> ln - 1]
NewStack(type, ln) == [kind |-> "stack", type |-> type, components |-> <<>>, lineNumber |-> ln]

\* result.errors.push(...)
PushError(st, msg) == [st EXCEPT !.errors = Append(@, ParseError(st.lineNumber, msg))]

\* PushChild with the element put first: components.unshift(element)
UnshiftChild(st, container, obj) ==
    [st EXCEPT !.heap = Alloc([@ EXCEPT ![container].components = <<st.lineNumber>> \o @],
                              st.lineNumber, obj)]

\* container.components.push(element), the element being the object of this line
PushChild(st, container, obj) ==
    [st EXCEPT !.heap = Alloc([@ EXCEPT ![container].components = Append(@, st.lineNumber)],
                              st.lineNumber, obj)]

\* contextStack.pop(): on an empty array it returns undefined and changes nothing
Pop(stack) == IF Len(stack) = 0 THEN stack ELSE SubSeq(stack, 1, Len(stack) - 1)

\* contextStack[contextStack.length - 1]
Top(stack) == stack[Len(stack)]

\* activeContext.container.kind === 'stack' ? container.type : container.kind
contextTypeDisplay(obj) == IF obj.kind = "stack" THEN obj.type ELSE obj.kind

-----------------------------------------------------------------------------
(* One iteration of the for loop, section by section.                      *)

\* ClosesByBrace without the comparison of the indentation
ClosesByBraceAtAnyIndent(obj, ctx, lineContent, currentIndent) ==
    obj.kind = "stack" /\ stackEndRegex(lineContent)

\* the first branch of the closing loop: a brace at the stack's own indentation
ClosesByBrace(obj, ctx, lineContent, currentIndent) ==
    obj.kind = "stack" /\ stackEndRegex(lineContent) /\ currentIndent = ctx.baseIndent

\* ClosesByDeindent for a line strictly left of the stack's indentation only
ClosesByStrictDeindent(obj, ctx, currentIndent) ==
    obj.kind = "stack" /\ currentIndent < ctx.baseIndent

\* the second branch: de-indentation to the stack's indentation or less
ClosesByDeindent(obj, ctx, currentIndent) ==
    obj.kind = "stack" /\ currentIndent <= ctx.baseIndent

\* while (contextStack.length > 0) { ... }: returns the stack left, whether a
\* brace consumed the line, and the number of pop() calls
RECURSIVE ClosingLoop(_, _, _, _, _, _)
ClosingLoop(stack, hp, lineContent, currentIndent, consumed, n) ==
    IF Len(stack) > 0
    THEN LET ctx == Top(stack)
             obj == hp[ctx.container]
         IN  IF ClosesByBrace(obj, ctx, lineContent, currentIndent)
             THEN ClosingLoop(Pop(stack), hp, lineContent, currentIndent,
                              consumed \/ trim(replaceStackEnd(lineContent)) = "", n + 1)
             ELSE IF ClosesByDeindent(obj, ctx, currentIndent)
             THEN ClosingLoop(Pop(stack), hp, lineContent, currentIndent, consumed, n + 1)
             ELSE [stack |-> stack, consumed |-> consumed, pops |-> n]
    ELSE [stack |-> stack, consumed |-> consumed, pops |-> n]

\* ScreenEnds with the negation of the brace test dropped
ScreenEndsAtBrace(stack, hp, lineContent, currentIndent) ==
    /\ Len(stack) > 0
    /\ hp[Top(stack).container].kind = "screen"
    /\ currentIndent = 0
    /\ stackEndRegex(lineContent)

\* ScreenEnds at every line at indentation 0, closing braces included
ScreenEndsAtAnyLine(stack, hp, lineContent, currentIndent) ==
    /\ Len(stack) > 0
    /\ hp[Top(stack).container].kind = "screen"
    /\ currentIndent = 0

\* ScreenEnds at every line that is not a closing brace, indented or not
ScreenEndsAtAnyIndent(stack, hp, lineContent, currentIndent) ==
    /\ Len(stack) > 0
    /\ hp[Top(stack).container].kind = "screen"
    /\ ~stackEndRegex(lineContent)

\* an open screen ends at a line at indentation 0 that is not a closing brace
ScreenEnds(stack, hp, lineContent, currentIndent) ==
    /\ Len(stack) > 0
    /\ hp[Top(stack).container].kind = "screen"
    /\ currentIndent = 0
    /\ ~stackEndRegex(lineContent)

\* NavigationRegistered that lets a second registration through
NavigationRegisteredTwice(st) == Len(st.navigationStacks) > 1

\* result.navigationStacks.length > 0
NavigationRegistered(st) == Len(st.navigationStacks) > 0

\* ScreenNameTaken looking at the most recent screen only
ScreenNameIsLast(st, name) ==
    Len(st.screens) > 0 /\ st.heap[st.screens[Len(st.screens)]].name = name

\* result.screens.find(s => s.name === match[1])
ScreenNameTaken(st, name) == \E i \in 1..Len(st.screens) : st.heap[st.screens[i]].name = name

\* The top-level forms, tried when no context is active and the indentation
\* is 0: [handled |-> a form matched (continue), st |-> the state after it]
TopLevel(st, lineContent, currentIndent) ==
    LET ln == st.lineNumber
        nav == navigationStackRegex(lineContent)
        tab == tabStackRegex(lineContent)
        drawer == drawerStackRegex(lineContent)
        link == screenLinkRegex(lineContent)
        scr == screenRegex(lineContent)
        Handled(s) == [handled |-> TRUE, st |-> s]
        Register(config) == [st EXCEPT !.navigationStacks = Append(@, config)]
    IN  IF nav.ok
        THEN IF NavigationRegistered(st) THEN Handled(PushError(st, MsgOnlyOneNavLong))
             ELSE Handled(Register([type |-> "navigation_stack", root |-> nav.g1,
                                    lineNumber |-> ln]))
        ELSE IF tab.ok
        THEN IF NavigationRegistered(st) THEN Handled(PushError(st, MsgOnlyOneNav))
             ELSE IF Len(TabNames(tab.g1)) = 0 THEN Handled(PushError(st, MsgEmptyTabs))
             ELSE Handled(Register([type |-> "tab_stack", tabs |-> TabNames(tab.g1),
                                    lineNumber |-> ln]))
        ELSE IF drawer.ok
        THEN IF NavigationRegistered(st) THEN Handled(PushError(st, MsgOnlyOneNav))
             ELSE Handled(Register([type |-> "drawer_stack", root |-> drawer.g1,
                                    drawer |-> drawer.g2, lineNumber |-> ln]))
        ELSE IF link.ok
        THEN Handled([st EXCEPT !.links =
                        Append(@, [sourceScreenName |-> link.g1,
                                   destinationScreenName |-> link.g2, lineNumber |-> ln])])
        ELSE IF scr.ok
        THEN LET s1 == IF ScreenNameTaken(st, scr.g1)
                       THEN PushError(st, MsgDuplicateScreen(scr.g1)) ELSE st
             IN  Handled([s1 EXCEPT
                            !.heap = Alloc(@, ln, NewScreen(scr.g1, ln)),
                            !.screens = Append(@, ln),
                            !.contextStack = Append(@, [container |-> ln,
                                                        baseIndent |-> currentIndent])])
        ELSE [handled |-> FALSE, st |-> st]

\* NoContext with the component forms taken for known forms as well
NoContextLenient(st, lineContent) ==
    IF ~(\/ screenRegex(lineContent).ok
         \/ navigationStackRegex(lineContent).ok
         \/ tabStackRegex(lineContent).ok
         \/ drawerStackRegex(lineContent).ok
         \/ screenLinkRegex(lineContent).ok
         \/ labelRegex(lineContent).ok)
    THEN PushError(st, MsgTopLevel(lineContent))
    ELSE st

\* if (!activeContext) { ... continue; }
NoContext(st, lineContent) ==
    IF ~(\/ screenRegex(lineContent).ok
         \/ navigationStackRegex(lineContent).ok
         \/ tabStackRegex(lineContent).ok
         \/ drawerStackRegex(lineContent).ok
         \/ screenLinkRegex(lineContent).ok)
    THEN PushError(st, MsgTopLevel(lineContent))
    ELSE st

\* a closing brace while a stack is the active context (the "refined logic");
\* activeContext is the top of the stack, so the identity test before pop() holds
BraceInStack(st, lineContent, currentIndent) ==
    LET activeContext == Top(st.contextStack)
        obj == st.heap[activeContext.container]
        s1 == IF currentIndent # activeContext.baseIndent
              THEN PushError(st, MsgMisplacedBrace(obj.type, activeContext.baseIndent,
                                                   currentIndent))
              ELSE st
        s2 == IF Len(s1.contextStack) > 0
                 /\ Top(s1.contextStack).container = activeContext.container
              THEN [s1 EXCEPT !.contextStack = Pop(@), !.pops = @ + 1]
              ELSE s1
    IN  IF trim(replaceStackEnd(lineContent)) = "" THEN s2
        ELSE PushError(s2, MsgContentAfterBrace)

\* stacks and components inside the active context:
\* [handled |-> an element was added (continue), st |-> the state after it]
Content(st, lineContent, currentIndent) ==
    LET ln == st.lineNumber
        container == Top(st.contextStack).container
        Handled(s) == [handled |-> TRUE, st |-> s]
        OpenStack(type) ==
            [PushChild(st, container, NewStack(type, ln)) EXCEPT
                !.contextStack = Append(@, [container |-> ln, baseIndent |-> currentIndent])]
        label == labelRegex(lineContent)
        input == inputRegex(lineContent)
        button == buttonRegex(lineContent)
        image == imageRegex(lineContent)
    IN  IF verticalStackStartRegex(lineContent) THEN Handled(OpenStack("vertical_stack"))
        ELSE IF horizontalStackStartRegex(lineContent) THEN Handled(OpenStack("horizontal_stack"))
        ELSE IF label.ok
        THEN Handled(PushChild(st, container,
                               [type |-> "label", text |-> label.g1, lineNumber |-> ln]))
        ELSE IF input.ok
        THEN Handled(PushChild(st, container,
                               [type |-> "input", placeholder |-> input.g1, lineNumber |-> ln]))
        ELSE IF button.ok
        THEN Handled(PushChild(st, container,
                               [type |-> "button", text |-> button.g1, lineNumber |-> ln]))
        ELSE IF image.ok
        THEN LET s1 == IF ~ImageSrcAllowed(image.g1)
                       THEN PushError(st, MsgImageSrc(image.g1)) ELSE st
             IN  Handled(PushChild(s1, container,
                                   [type |-> "image", src |-> image.g1, lineNumber |-> ln]))
        ELSE [handled |-> FALSE, st |-> st]

\* the part of the loop body after the top-level forms, with an active context
InContext(st, lineContent, currentIndent) ==
    LET activeContext == Top(st.contextStack)
        obj == st.heap[activeContext.container]
        expectedComponentIndent == activeContext.baseIndent + IndentUnit
    IN  IF obj.kind = "stack" /\ stackEndRegex(lineContent)
        THEN BraceInStack(st, lineContent, currentIndent)
        ELSE IF stackEndRegex(lineContent) /\ obj.kind = "screen"
        THEN PushError(st, MsgBraceInScreen)
        ELSE IF stackEndRegex(lineContent)
        THEN PushError(st, MsgExtraneousBrace)
        ELSE IF currentIndent < expectedComponentIndent
        THEN PushError(st, MsgIndentation(expectedComponentIndent, contextTypeDisplay(obj),
                                          currentIndent))
        ELSE LET c == Content(st, lineContent, currentIndent)
             IN  IF c.handled THEN c.st
                 ELSE PushError(st, MsgInvalidSyntax(contextTypeDisplay(obj), lineContent))

\* The body of "for (const rawLine of lines)" for one line.
ProcessLine(ps, rawLine) ==
    LET ln == ps.lineNumber + 1
        line == trimEnd(rawLine)
    IN  IF emptyLineRegex(line) \/ commentRegex(line)
        THEN [ps EXCEPT !.lineNumber = ln, !.pops = 0]
        ELSE
        LET currentIndent == countIndentation(line)
            lineContent == trimStart(line)
            loop == ClosingLoop(ps.contextStack, ps.heap, lineContent, currentIndent, FALSE, 0)
        IN  IF loop.consumed
            THEN [ps EXCEPT !.lineNumber = ln, !.contextStack = loop.stack, !.pops = loop.pops]
            ELSE
            LET ends == ScreenEnds(loop.stack, ps.heap, lineContent, currentIndent)
                st == [ps EXCEPT !.lineNumber = ln,
                                 !.contextStack = IF ends THEN Pop(loop.stack) ELSE loop.stack,
                                 !.pops = IF ends THEN loop.pops + 1 ELSE loop.pops]
                noContext == Len(st.contextStack) = 0
                top == IF noContext /\ currentIndent = 0
                       THEN TopLevel(st, lineContent, currentIndent)
                       ELSE [handled |-> FALSE, st |-> st]
            IN  IF top.handled THEN top.st
                ELSE IF noContext THEN NoContext(st, lineContent)
                ELSE InContext(st, lineContent, currentIndent)

\* UnclosedCheck reporting at the line after the last one handled
UnclosedCheckAtEnd(st) ==
    IF Len(st.contextStack) > 0
    THEN LET innermostUnclosed == st.heap[Top(st.contextStack).container]
         IN  IF innermostUnclosed.kind = "stack"
             THEN [st EXCEPT !.errors = Append(@, ParseError(st.lineNumber + 1,
                                                             MsgUnclosed(innermostUnclosed.type)))]
             ELSE st
    ELSE st

\* UnclosedCheck reporting every open stack, innermost first
RECURSIVE UnclosedCheckAll(_)
UnclosedCheckAll(st) ==
    IF Len(st.contextStack) > 0 /\ st.heap[Top(st.contextStack).container].kind = "stack"
    THEN LET unclosed == st.heap[Top(st.contextStack).container]
             rest == UnclosedCheckAll([st EXCEPT !.contextStack = Pop(@)])
         IN  [st EXCEPT !.errors = <<ParseError(unclosed.lineNumber, MsgUnclosed(unclosed.type))>>
                                        \o SubSeq(rest.errors, Len(st.errors) + 1, Len(rest.errors))]
    ELSE st

\* if (contextStack.length > 0) { ... 'Unclosed ...' }
UnclosedCheck(st) ==
    IF Len(st.contextStack) > 0
    THEN LET innermostUnclosed == st.heap[Top(st.contextStack).container]
         IN  IF innermostUnclosed.kind = "stack"
             THEN [st EXCEPT !.errors = Append(@, ParseError(innermostUnclosed.lineNumber,
                                                             MsgUnclosed(innermostUnclosed.type)))]
             ELSE st
    ELSE st

\* const screenNames = new Set(result.screens.map(s => s.name))
ScreenNames(st) == {st.heap[st.screens[i]].name : i \in 1..Len(st.screens)}

\* LinkErrors with the destination checked only when the source is defined
LinkErrorsFirstOnly(names, link) ==
    IF link.sourceScreenName \notin names
    THEN <<ParseError(link.lineNumber, MsgLinkSource(link.sourceScreenName))>>
    ELSE IF link.destinationScreenName \notin names
    THEN <<ParseError(link.lineNumber, MsgLinkDestination(link.destinationScreenName))>>
    ELSE <<>>

\* the two checks made for one link
LinkErrors(names, link) ==
    (IF link.sourceScreenName \notin names
     THEN <<ParseError(link.lineNumber, MsgLinkSource(link.sourceScreenName))>> ELSE <<>>)
    \o
    (IF link.destinationScreenName \notin names
     THEN <<ParseError(link.lineNumber, MsgLinkDestination(link.destinationScreenName))>>
     ELSE <<>>)

\* result.links.forEach(link => { ... })
RECURSIVE AllLinkErrors(_, _)
AllLinkErrors(names, ls) ==
    IF Len(ls) = 0 THEN <<>>
    ELSE LinkErrors(names, Head(ls)) \o AllLinkErrors(names, Tail(ls))

\* ValidateLinks with each link checked against the screens declared above it
RECURSIVE LinkErrorsAbove(_, _)
LinkErrorsAbove(st, ls) ==
    IF Len(ls) = 0 THEN <<>>
    ELSE LET above == {st.heap[st.screens[i]].name :
                          i \in {j \in 1..Len(st.screens) : st.screens[j] < Head(ls).lineNumber}}
         IN  LinkErrors(above, Head(ls)) \o LinkErrorsAbove(st, Tail(ls))
ValidateLinksAbove(st) == [st EXCEPT !.errors = @ \o LinkErrorsAbove(st, st.links)]

\* const screenNames = ...; result.links.forEach(...)
ValidateLinks(st) == [st EXCEPT !.errors = @ \o AllLinkErrors(ScreenNames(st), st.links)]

\* Finalize with the links validated before the unclosed check
FinalizeLinksFirst(st) == UnclosedCheck(ValidateLinks(st))

\* what follows the for loop
Finalize(st) == ValidateLinks(UnclosedCheck(st))

\* The object graph below heap key id, as the nested value the caller sees.
RECURSIVE Tree(_, _)
Tree(hp, id) ==
    IF "components" \in DOMAIN hp[id]
    THEN [hp[id] EXCEPT !.components = [i \in 1..Len(@) |-> Tree(hp, @[i])]]
    ELSE hp[id]

\* return result
ParseResult(st) ==
    [screens |-> [i \in 1..Len(st.screens) |-> Tree(st.heap, st.screens[i])],
     navigationStacks |-> st.navigationStacks,
     links |-> st.links,
     errors |-> st.errors]

\* the whole parse of the lines ls, from state st: the for loop, the state
\* after each line being a value before the next line is read
RECURSIVE RunLines(_, _)
RunLines(st, ls) ==
    IF Len(ls) = 0 THEN st
    ELSE CHOOSE after \in {RunLines(next, Tail(ls)) : next \in {ProcessLine(st, Head(ls))}} : TRUE

\* parseDsl(c) as one synchronous call: split, the for loop, what follows it
parseDsl(c) == ParseResult(Finalize(RunLines(FreshState, split(c))))

-----------------------------------------------------------------------------
(* Inputs and actions.                                                     *)

\* lines joined by "\n", the inverse of split
RECURSIVE Join(_)
Join(ls) == IF Len(ls) = 1 THEN ls[1] ELSE ls[1] \o "\n" \o Join(Tail(ls))

RECURSIVE Spaces(_)
Spaces(n) == IF n = 0 THEN "" ELSE " " \o Spaces(n - 1)

\* a closing brace alone on its line, at indentation n
BraceLine(n) == Spaces(n) \o "}"

\* every input of 1..max lines drawn from Lines
Inputs(Lines, max) == UNION {{Join(ls) : ls \in [1..n -> Lines]} : n \in 1..max}

NoResult == [screens |-> <<>>, navigationStacks |-> <<>>, links |-> <<>>, errors |-> <<>>]

\* no parseDsl call made yet
ParserIdle ==
    /\ pc = "idle"
    /\ code = ""
    /\ lineNumber = 0
    /\ contextStack = <<>>
    /\ heap = <<>>
    /\ screens = <<>>
    /\ navigationStacks = <<>>
    /\ links = <<>>
    /\ errors = <<>>
    /\ pops = 0
    /\ returned = NoResult
    /\ history = <<>>

\* JavaScript's null where a record is expected, and a value that is a
\* string or undefined: undefined, or the string s, which no string equals
Null == [kind |-> "null"]
Undefined == [kind |-> "undefined"]
Str(s) == [kind |-> "string", value |-> s]

\* no editor mounted, nothing rendered, no App mounted
NotLinted == [status |-> "idle"]
NoElement == [type |-> "none"]
NotRendered == [tag |-> "none"]
EditorAbsent == doc = <<"">> /\ editorErrors = <<>> /\ diagnostics = NotLinted
RendererAbsent == element = NoElement /\ rendered = NotRendered
AppAbsent ==
    /\ dslCode = ""
    /\ parseOutput = [parse |-> 0, result |-> NoResult]
    /\ activeScreen = Null
    /\ viewMode = "singleScreen"
    /\ timers = {}
    /\ handler = 0
    /\ parses = 0
    /\ root = "legacy"
    /\ updates = [hook \in {} |-> Null]
    /\ callback = [kind |-> "none"]
    /\ effectDeps = <<>>

\* no StoryboardCanvas mounted
NoStoryboard == [screens |-> <<>>, links |-> <<>>]
NoPositions == [name \in {} |-> Null]
CanvasAbsent == storyboard = NoStoryboard /\ nodePositions = NoPositions

Init ==
    /\ ParserIdle
    /\ EditorAbsent
    /\ RendererAbsent
    /\ AppAbsent
    /\ CanvasAbsent

SetState(st) ==
    /\ lineNumber' = st.lineNumber
    /\ contextStack' = st.contextStack
    /\ heap' = st.heap
    /\ screens' = st.screens
    /\ navigationStacks' = st.navigationStacks
    /\ links' = st.links
    /\ errors' = st.errors
    /\ pops' = st.pops

\* parseDsl(c) is called: the locals are created afresh
Call(c) ==
    /\ code' = c
    /\ pc' = "loop"
    /\ SetState(FreshState)
    /\ UNCHANGED <<returned, history, editorVars, rendererVars, appVars, canvasVars>>

\* the first call, with any input of the set
ParseDsl(inputs) ==
    /\ pc = "idle"
    /\ \E c \in inputs : Call(c)

\* a later call, after the previous one has returned
ParseDslAgain(inputs, maxCalls) ==
    /\ pc = "done"
    /\ Len(history) < maxCalls
    /\ \E c \in inputs : Call(c)

\* LinesLeft with the last line left out of the iteration
LinesLeftButOne == lineNumber < Len(split(code)) - 1

\* for (const rawLine of lines): another line is left
LinesLeft == lineNumber < Len(split(code))

\* one iteration of the for loop
ParseLine ==
    /\ pc = "loop"
    /\ LinesLeft
    /\ SetState(ProcessLine(Cur, split(code)[lineNumber + 1]))
    /\ UNCHANGED <<pc, code, returned, history, editorVars, rendererVars, appVars,
                   canvasVars>>

\* the loop is over: unclosed check, link validation, return
EndOfInput ==
    /\ pc = "loop"
    /\ ~LinesLeft
    /\ LET st == Finalize(Cur)
       IN  /\ SetState(st)
           /\ returned' = ParseResult(st)
           /\ history' = Append(history, [code |-> code, result |-> ParseResult(st)])
    /\ pc' = "done"
    /\ UNCHANGED <<code, editorVars, rendererVars, appVars, canvasVars>>

-----------------------------------------------------------------------------
(* Specifications: one parseDsl call on every text of a few lines drawn    *)
(* from a small set of lines, one set per family of properties.            *)

\* A text of screens, nested stacks, a component, a closing brace, a link
\* and a navigation line; each of them is malformed where it does not belong.
MaxLines == 4
Lines == {"screen A", "  vertical_stack {", "    horizontal_stack {", "    label \"x\"",
          "  }", "A -> B", "navigation_stack root=A"}

Next ==
    \/ ParseDsl(Inputs(Lines, MaxLines))
    \/ ParseLine
    \/ EndOfInput

Spec == Init /\ [][Next]_vars

\* Navigation lines of the three kinds, well-formed and not
MaxNavLines == 4
NavLines == {"navigation_stack root=A", "tab_stack tabs=[A, B]", "tab_stack tabs=[ , ]",
             "tab_stack tabs=[]", "drawer_stack root=A drawer=B", "screen A",
             "  navigation_stack root=B"}

NextNav ==
    \/ ParseDsl(Inputs(NavLines, MaxNavLines))
    \/ ParseLine
    \/ EndOfInput

SpecNav == Init /\ [][NextNav]_vars

\* Screens, repeated screens and links between declared and undeclared screens
MaxLinkLines == 4
LinkLines == {"screen A", "screen B", "  label \"x\"", "A -> B", "B -> C", "C -> C"}

NextLinks ==
    \/ ParseDsl(Inputs(LinkLines, MaxLinkLines))
    \/ ParseLine
    \/ EndOfInput

SpecLinks == Init /\ [][NextLinks]_vars

\* Nested stacks, closed by braces and by de-indented content
MaxNestLines == 4
NestLines == {"screen A", "  vertical_stack {", "    horizontal_stack {", "      label \"x\"",
              "   label \"y\"", "  label \"z\"", "    }"}

NextNest ==
    \/ ParseDsl(Inputs(NestLines, MaxNestLines))
    \/ ParseLine
    \/ EndOfInput

SpecNest == Init /\ [][NextNest]_vars

\* Several calls, one after the other
MaxCallLines == 1
MaxCalls == 3
CallLines == {"screen A", "A -> B", "oops", "navigation_stack root=A"}

NextCalls ==
    \/ ParseDsl(Inputs(CallLines, MaxCallLines))
    \/ ParseDslAgain(Inputs(CallLines, MaxCallLines), MaxCalls)
    \/ ParseLine
    \/ EndOfInput

SpecCalls == Init /\ [][NextCalls]_vars

\* Stacks and closing braces at, left of and right of the stack's indentation
MaxBraceLines == 4
BraceLines == {"screen A", "  vertical_stack {", "      horizontal_stack {",
               "    }", "  }", "}", "  } label \"x\""}

NextBrace ==
    \/ ParseDsl(Inputs(BraceLines, MaxBraceLines))
    \/ ParseLine
    \/ EndOfInput

SpecBrace == Init /\ [][NextBrace]_vars

\* A screen with components, stacks, closing braces, blank and comment
\* lines, and the same lines with no screen open
MaxScreenLines == 4
ScreenBodyLines == {"screen A", "  label \"x\"", "label \"x\"", "  vertical_stack {",
                    "}", "  }", "", "# note"}

NextScreen ==
    \/ ParseDsl(Inputs(ScreenBodyLines, MaxScreenLines))
    \/ ParseLine
    \/ EndOfInput

SpecScreen == Init /\ [][NextScreen]_vars

\* A horizontal_stack nested in a vertical_stack inside a screen, the inner
\* brace in its place, the outer brace at every indentation but the
\* vertical_stack's own, followed by top-level lines
MaxWrongIndent == 5
MaxFollowing == 2
OuterStackLine == "  vertical_stack {"
WrongIndents == (0..MaxWrongIndent) \ {countIndentation(OuterStackLine)}
FollowLines == {"screen B", "A -> A", "navigation_stack root=A"}
Following ==
    UNION {{t \in [1..n -> FollowLines] : \A i, j \in 1..n : t[i] = t[j] => i = j} :
              n \in 1..MaxFollowing}
MisplacedOuterBrace ==
    {Join(<<"screen A", OuterStackLine>> \o inVertical \o <<"    horizontal_stack {">>
          \o inHorizontal \o <<"    }", BraceLine(w)>> \o t) :
        inVertical \in {<<>>, <<"    label \"x\"">>},
        inHorizontal \in {<<>>, <<"      button \"y\"">>},
        w \in WrongIndents,
        t \in Following}

NextScenario6 ==
    \/ ParseDsl(MisplacedOuterBrace)
    \/ ParseLine
    \/ EndOfInput

SpecScenario6 == Init /\ [][NextScenario6]_vars

\* Blank lines and comment lines at several indentations, between the
\* lines of a screen and a stack
MaxCommentLines == 4
CommentLines == {"screen A", "  vertical_stack {", "    label \"x\"",
                 "", "   ", "# note", "      // note"}

NextComment ==
    \/ ParseDsl(Inputs(CommentLines, MaxCommentLines))
    \/ ParseLine
    \/ EndOfInput

SpecComment == Init /\ [][NextComment]_vars

\* A well-formed screen whose component, stack and brace lines carry a
\* trailing comment or none
TrailingComments == {"", " // note", " # note"}
CommentedBody == <<"  vertical_stack {", "    label \"x\"", "  }", "  button \"y\"">>
CommentedInputs ==
    {Join(<<"screen A">> \o [i \in DOMAIN CommentedBody |-> CommentedBody[i] \o t[i]]) :
        t \in [DOMAIN CommentedBody -> TrailingComments]}

NextTrailing ==
    \/ ParseDsl(CommentedInputs)
    \/ ParseLine
    \/ EndOfInput

SpecTrailing == Init /\ [][NextTrailing]_vars

\* Stacks opened and closed on one line, next to stacks closed on a line
\* of their own
MaxInlineLines == 3
InlineLines == {"screen A", "  vertical_stack {}", "  horizontal_stack { }",
                "  vertical_stack {", "  }", "  label \"x\""}

NextInline ==
    \/ ParseDsl(Inputs(InlineLines, MaxInlineLines))
    \/ ParseLine
    \/ EndOfInput

SpecInline == Init /\ [][NextInline]_vars

\* Screens, a stack and its closing brace, content, a link with undeclared
\* ends, a line of no form, and blank and comment lines between them
MaxCountLines == 4
CountLines == {"screen A", "  vertical_stack {", "  }", "    label \"x\"", "A -> B", "oops",
               "", "  # note"}

NextCount ==
    \/ ParseDsl(Inputs(CountLines, MaxCountLines))
    \/ ParseLine
    \/ EndOfInput

SpecCount == Init /\ [][NextCount]_vars

\* Images in a screen or in a stack of it, with sources of every allowed
\* form and of forms close to them
MaxImages == 2
Srcs == {"https://a", "HTTP://a", "ftp://a", "ftps://a", "http:/a", "/a", "//a", "/",
         "a.png", "a-b.JPEG", "a.b.png", "a.txt", ".svg", "javascript:a", "data:a", ""}
ImageLine(indent, src) == Spaces(indent) \o "image src=\"" \o src \o "\""
ImageInputs ==
    UNION {{Join(<<"screen A">> \o [i \in 1..n |-> ImageLine(IndentUnit, t[i])]) :
                t \in [1..n -> Srcs]}
           \cup
           {Join(<<"screen A", "  vertical_stack {">>
                 \o [i \in 1..n |-> ImageLine(2 * IndentUnit, t[i])]) :
                t \in [1..n -> Srcs]} :
              n \in 1..MaxImages}

NextImage ==
    \/ ParseDsl(ImageInputs)
    \/ ParseLine
    \/ EndOfInput

SpecImage == Init /\ [][NextImage]_vars

-----------------------------------------------------------------------------
(* The input text, read independently of the parser's state.               *)

InputLines == split(code)
NumLines == Len(InputLines)

\* line i without its trailing white space, its indentation, its content
LineOf(i) == trimEnd(InputLines[i])
IndentOf(i) == countIndentation(LineOf(i))
ContentOf(i) == trimStart(LineOf(i))

\* the line neither blank nor a comment
IsSourceLine(i) == ~emptyLineRegex(LineOf(i)) /\ ~commentRegex(LineOf(i))

\* well-formed lines at indentation 0
IsScreenLine(i) == IndentOf(i) = 0 /\ screenRegex(ContentOf(i)).ok
IsLinkLine(i) == IndentOf(i) = 0 /\ screenLinkRegex(ContentOf(i)).ok
IsNavLine(i) ==
    /\ IndentOf(i) = 0
    /\ \/ navigationStackRegex(ContentOf(i)).ok
       \/ tabStackRegex(ContentOf(i)).ok
       \/ drawerStackRegex(ContentOf(i)).ok

\* the screen names declared anywhere in the text
DeclaredNames == {screenRegex(ContentOf(i)).g1 : i \in {j \in 1..NumLines : IsScreenLine(j)}}

HasPrefix(s, prefix) == Len(s) >= Len(prefix) /\ SubSeq(s, 1, Len(prefix)) = prefix

IsUnclosedDiag(e) == HasPrefix(e.message, "Unclosed ")
IsLinkDiag(e) ==
    \/ HasPrefix(e.message, "Source screen \"")
    \/ HasPrefix(e.message, "Destination screen \"")
IsOnlyOneDiag(e) == e.message \in {MsgOnlyOneNavLong, MsgOnlyOneNav}

\* the contexts of the stack that are stacks (containers)
OpenStacks == {i \in DOMAIN contextStack : heap[contextStack[i].container].kind = "stack"}

\* the heap keys of the elements below object id
RECURSIVE Descendants(_, _)
Descendants(hp, id) ==
    IF "components" \in DOMAIN hp[id]
    THEN UNION {{hp[id].components[i]} \cup Descendants(hp, hp[id].components[i]) :
                    i \in 1..Len(hp[id].components)}
    ELSE {}

-----------------------------------------------------------------------------
(* C1: every call ends with every physical line handled exactly once.      *)

C1_Complete ==
    /\ pc \in {"loop", "done"} => lineNumber <= NumLines
    /\ pc = "done" => lineNumber = NumLines /\ returned = ParseResult(Cur)

C1_Step ==
    /\ pc = "loop" /\ pc' = "loop" => lineNumber' = lineNumber + 1 /\ pops' <= Len(contextStack)
    /\ pc = "loop" /\ pc' = "done" => lineNumber' = lineNumber /\ ~LinesLeft

\* C1: parseDsl terminates with a complete ParseResult on every input: the
\* line counter advances by exactly one per iteration and never passes the
\* number of physical lines, an iteration pops no more contexts than were
\* open, and the call returns only when every line has been handled.
C1_Terminates == []C1_Complete /\ [][C1_Step]_vars

\* a malformed first line, and later lines that were still parsed
C1_Witness ==
    /\ pc = "done"
    /\ NumLines = 4
    /\ Len(errors) > 0 /\ errors[1].lineNumber = 1
    /\ pops > 0
    /\ \E k \in DOMAIN heap : k = 3 /\ heap[k].kind = "stack"

-----------------------------------------------------------------------------
(* C2: recovery at the next top-level line.                                *)

C2_Step ==
    pc = "loop" /\ LinesLeft =>
        LET ln == lineNumber + 1
            content == ContentOf(ln)
        IN  /\ IsScreenLine(ln) =>
                /\ screens' = Append(screens, ln)
                /\ ln \in DOMAIN heap'
                /\ heap'[ln] = [kind |-> "screen", name |-> screenRegex(content).g1,
                                components |-> <<>>, lineNumber |-> ln]
                /\ contextStack' = <<[container |-> ln, baseIndent |-> 0]>>
            /\ IsLinkLine(ln) =>
                /\ links' = Append(links, [sourceScreenName |-> screenLinkRegex(content).g1,
                                           destinationScreenName |-> screenLinkRegex(content).g2,
                                           lineNumber |-> ln])
                /\ contextStack' = <<>>
                /\ errors' = errors
            /\ IsNavLine(ln) =>
                /\ contextStack' = <<>>
                /\ \/ /\ Len(navigationStacks') = Len(navigationStacks) + 1
                      /\ navigationStacks'[Len(navigationStacks')].lineNumber = ln
                      /\ errors' = errors
                   \/ /\ navigationStacks' = navigationStacks
                      /\ Len(errors') = Len(errors) + 1
                      /\ errors'[Len(errors')].lineNumber = ln
                      /\ errors'[Len(errors')].message \in
                            {MsgOnlyOneNavLong, MsgOnlyOneNav, MsgEmptyTabs}

\* C2: whatever the lines before it did (diagnostics, containers left
\* open), a well-formed screen line at indentation 0 registers a new Screen
\* that becomes the only open context, and a well-formed link or
\* navigation line at indentation 0 is handled as a top-level construct.
C2_Recovery == [][C2_Step]_vars

\* a screen line that closed a stack and a screen, after a diagnostic
C2_Witness ==
    /\ pc = "loop"
    /\ lineNumber = 4
    /\ IsScreenLine(4)
    /\ pops >= 2
    /\ Len(errors) > 0 /\ errors[1].lineNumber < 4
    /\ contextStack = <<[container |-> 4, baseIndent |-> 0]>>

-----------------------------------------------------------------------------
(* C3: diagnostics point into the text.                                    *)

\* C3: every diagnostic, of the line pass, of the unclosed-block check and
\* of the link validation, has a lineNumber in 1..number of physical lines.
C3_LineCoverage ==
    /\ \A i \in 1..Len(errors) : 1 <= errors[i].lineNumber /\ errors[i].lineNumber <= NumLines
    /\ pc = "done" =>
          \A i \in 1..Len(returned.errors) :
              1 <= returned.errors[i].lineNumber /\ returned.errors[i].lineNumber <= NumLines

\* an unclosed block opened on the last line, and a link diagnostic
C3_Witness ==
    /\ pc = "done"
    /\ \E i \in 1..Len(errors) : IsUnclosedDiag(errors[i]) /\ errors[i].lineNumber = NumLines
    /\ \E i \in 1..Len(errors) : IsLinkDiag(errors[i])
    /\ \E i \in 1..Len(errors) : ~IsLinkDiag(errors[i]) /\ ~IsUnclosedDiag(errors[i])

-----------------------------------------------------------------------------
(* C10: the unclosed-block check at the end of the input.                  *)

UnclosedDiags == SelectSeq(errors, IsUnclosedDiag)

\* C10: when the call has returned, if stacks are still open there is
\* exactly one unclosed-block diagnostic and its lineNumber is the opening
\* line of the innermost open stack; if only a screen or nothing is open
\* there is none.
C10_Unclosed ==
    pc = "done" =>
        IF OpenStacks # {}
        THEN LET innermost == CHOOSE i \in OpenStacks : \A j \in OpenStacks : j <= i
                 opened == contextStack[innermost].container
             IN  /\ Len(UnclosedDiags) = 1
                 /\ UnclosedDiags[1].lineNumber = opened
                 /\ \/ verticalStackStartRegex(ContentOf(opened))
                    \/ horizontalStackStartRegex(ContentOf(opened))
        ELSE Len(UnclosedDiags) = 0

\* two stacks left open, the diagnostic at the inner one
C10_Witness ==
    /\ pc = "done"
    /\ Cardinality(OpenStacks) >= 2
    /\ Len(UnclosedDiags) = 1
    /\ UnclosedDiags[1].lineNumber = contextStack[Len(contextStack)].container

-----------------------------------------------------------------------------
(* C4: calls are independent of one another.                               *)

\* C4: any two completed parseDsl calls on the same input returned equal
\* ParseResults, whatever calls were made between them, and every call
\* starts its line pass with an empty context stack and no screens,
\* navigation, links or errors left from the call before.
C4_Deterministic ==
    /\ \A i, j \in 1..Len(history) :
           history[i].code = history[j].code => history[i].result = history[j].result
    /\ pc = "loop" /\ lineNumber = 0 =>
           /\ contextStack = <<>> /\ heap = <<>> /\ screens = <<>>
           /\ navigationStacks = <<>> /\ links = <<>> /\ errors = <<>>

\* the same input parsed first and third, another input with a different
\* result between them, diagnostics in the repeated result
C4_Witness ==
    /\ pc = "done"
    /\ Len(history) = 3
    /\ history[1].code = history[3].code
    /\ history[2].code # history[1].code
    /\ history[2].result # history[1].result
    /\ Len(history[1].result.errors) > 0
    /\ Len(history[2].result.screens) > 0

-----------------------------------------------------------------------------
(* C5: at most one navigation configuration.                               *)

\* a line at indentation 0 that starts with a navigation keyword
IsNavKeywordLine(i) ==
    /\ IndentOf(i) = 0
    /\ \/ HasPrefix(ContentOf(i), "navigation_stack")
       \/ HasPrefix(ContentOf(i), "tab_stack")
       \/ HasPrefix(ContentOf(i), "drawer_stack")

C5_Step ==
    /\ pc = "loop" /\ LinesLeft /\ navigationStacks # <<>> =>
        LET ln == lineNumber + 1
        IN  /\ navigationStacks' = navigationStacks
            /\ IsNavKeywordLine(ln) =>
                /\ Len(errors') = Len(errors) + 1
                /\ SubSeq(errors', 1, Len(errors)) = errors
                /\ errors'[Len(errors')].lineNumber = ln
            /\ IsNavLine(ln) => IsOnlyOneDiag(errors'[Len(errors')])
    /\ pc = "loop" /\ pc' = "done" =>
        /\ navigationStacks' = navigationStacks
        /\ returned'.navigationStacks = navigationStacks

\* C5: the result never holds more than one NavigationConfig; once one is
\* registered it stays as it is to the end of the call, and every later
\* navigation_stack, tab_stack or drawer_stack line at indentation 0 adds
\* exactly one diagnostic, at its own line, and no config.
C5_SingleNavigation == [](Len(navigationStacks) <= 1) /\ [][C5_Step]_vars

\* a registered config followed by three rejected navigation lines
C5_Witness ==
    /\ pc = "done"
    /\ Len(returned.navigationStacks) = 1
    /\ returned.navigationStacks[1].lineNumber = 1
    /\ Len(SelectSeq(errors, IsOnlyOneDiag)) = 3
    /\ \E i \in 1..Len(errors) : errors[i].message = MsgOnlyOneNavLong
    /\ \E i \in 1..Len(errors) : errors[i].message = MsgOnlyOneNav

-----------------------------------------------------------------------------
(* C6: repeated screen names.                                              *)

\* the screen lines of the text, in order
RECURSIVE ScreenLinesFrom(_)
ScreenLinesFrom(i) ==
    IF i > NumLines THEN <<>>
    ELSE IF IsScreenLine(i) THEN <<i>> \o ScreenLinesFrom(i + 1)
    ELSE ScreenLinesFrom(i + 1)
ScreenLines == ScreenLinesFrom(1)

NameAt(i) == screenRegex(ContentOf(i)).g1

\* the first line after line i that ends the body of a screen declared at i
RECURSIVE BodyEnd(_)
BodyEnd(i) ==
    IF i + 1 > NumLines THEN NumLines + 1
    ELSE IF IsSourceLine(i + 1) /\ IndentOf(i + 1) = 0 /\ ~stackEndRegex(ContentOf(i + 1))
    THEN i + 1
    ELSE BodyEnd(i + 1)

\* the component lines of the body of the screen declared at line i, in order
RECURSIVE BodyLines(_, _)
BodyLines(i, end) ==
    IF i >= end THEN <<>>
    ELSE IF IsSourceLine(i) /\ IndentOf(i) >= IndentUnit /\ labelRegex(ContentOf(i)).ok
    THEN <<i>> \o BodyLines(i + 1, end)
    ELSE BodyLines(i + 1, end)

IsDuplicateDiag(e) == HasPrefix(e.message, "Duplicate screen name: ")

\* C6: when the call has returned, the result holds one Screen per screen
\* declaration of the text, in declaration order and under the declared
\* name, also when the name was declared before; each Screen holds the
\* components of the lines that follow its own declaration; and the
\* 'Duplicate screen name' diagnostics are exactly one per declaration
\* that repeats an earlier name, at that declaration's line.
C6_Duplicates ==
    pc = "done" =>
        /\ screens = ScreenLines
        /\ Len(returned.screens) = Len(ScreenLines)
        /\ \A k \in 1..Len(ScreenLines) :
              LET ln == ScreenLines[k]
              IN  /\ returned.screens[k].name = NameAt(ln)
                  /\ returned.screens[k].lineNumber = ln
                  /\ heap[ln].components = BodyLines(ln + 1, BodyEnd(ln))
                  /\ (\E e \in 1..Len(errors) :
                          errors[e] = ParseError(ln, MsgDuplicateScreen(NameAt(ln))))
                     <=> (\E m \in 1..(k - 1) : NameAt(ScreenLines[m]) = NameAt(ln))
        /\ Len(SelectSeq(errors, IsDuplicateDiag)) =
              Cardinality({k \in 1..Len(ScreenLines) :
                              \E m \in 1..(k - 1) : NameAt(ScreenLines[m]) = NameAt(ScreenLines[k])})

\* the same name declared three times, the second declaration with a child
C6_Witness ==
    /\ pc = "done"
    /\ Len(returned.screens) = 3
    /\ \A k \in 1..3 : returned.screens[k].name = "A"
    /\ Len(returned.screens[1].components) = 0
    /\ Len(returned.screens[2].components) = 1
    /\ Len(SelectSeq(errors, IsDuplicateDiag)) = 2

-----------------------------------------------------------------------------
(* C7: links may precede the screens they name.                            *)

\* C7: when the call has returned, a link line whose two screen names are
\* both declared somewhere in the text, above or below the link, has no
\* diagnostic at its line, and the link is in the result.
C7_ForwardReferences ==
    pc = "done" =>
        \A i \in 1..NumLines :
            IsLinkLine(i)
            /\ screenLinkRegex(ContentOf(i)).g1 \in DeclaredNames
            /\ screenLinkRegex(ContentOf(i)).g2 \in DeclaredNames
            => /\ \A e \in 1..Len(returned.errors) : returned.errors[e].lineNumber # i
               /\ \E k \in 1..Len(returned.links) : returned.links[k].lineNumber = i

\* a link on the first line, both of its screens declared below it
C7_Witness ==
    /\ pc = "done"
    /\ IsLinkLine(1)
    /\ \E i, j \in 2..NumLines :
          /\ IsScreenLine(i) /\ NameAt(i) = screenLinkRegex(ContentOf(1)).g1
          /\ IsScreenLine(j) /\ NameAt(j) = screenLinkRegex(ContentOf(1)).g2
          /\ i # j
    /\ returned.errors = <<>>
    /\ Len(returned.links) = 1

-----------------------------------------------------------------------------
(* C8: validation of the links against the screens.                        *)

LinkDiags == SelectSeq(errors, IsLinkDiag)

\* the checks of the links that fail: <<link index, "source" or "destination">>
UndefinedEnds ==
    {<<k, "source">> : k \in {n \in 1..Len(links) :
                                links[n].sourceScreenName \notin ScreenNames(Cur)}}
    \cup
    {<<k, "destination">> : k \in {n \in 1..Len(links) :
                                links[n].destinationScreenName \notin ScreenNames(Cur)}}

\* C8: no link diagnostic exists during the line pass; when the call has
\* returned, for every recorded link there is a 'Source screen' diagnostic
\* at the link's line iff its source is no registered screen name and a
\* 'Destination screen' diagnostic at the link's line iff its destination
\* is none, and there are no other link diagnostics, also with no screens
\* or no links.
C8_LinkValidation ==
    /\ pc = "loop" => Len(LinkDiags) = 0
    /\ pc = "done" =>
        /\ \A k \in 1..Len(links) :
              LET link == links[k]
              IN  /\ (\E e \in 1..Len(errors) :
                          errors[e] = ParseError(link.lineNumber,
                                                 MsgLinkSource(link.sourceScreenName)))
                     <=> link.sourceScreenName \notin ScreenNames(Cur)
                  /\ (\E e \in 1..Len(errors) :
                          errors[e] = ParseError(link.lineNumber,
                                                 MsgLinkDestination(link.destinationScreenName)))
                     <=> link.destinationScreenName \notin ScreenNames(Cur)
        /\ \A e \in 1..Len(LinkDiags) :
              \E k \in 1..Len(links) :
                  /\ LinkDiags[e].lineNumber = links[k].lineNumber
                  /\ LinkDiags[e].message \in {MsgLinkSource(links[k].sourceScreenName),
                                               MsgLinkDestination(links[k].destinationScreenName)}
        /\ Len(LinkDiags) = Cardinality(UndefinedEnds)
        /\ returned.errors = errors

\* a link with both ends undefined and no screen at all, and a second link
C8_Witness ==
    /\ pc = "done"
    /\ screens = <<>>
    /\ Len(links) = 2
    /\ links[1].sourceScreenName # links[1].destinationScreenName
    /\ Len(LinkDiags) = 4
    /\ LinkDiags[1].message = MsgLinkSource(links[1].sourceScreenName)
    /\ LinkDiags[2].message = MsgLinkDestination(links[1].destinationScreenName)

-----------------------------------------------------------------------------
(* C9: a stack closed by de-indentation and a stack closed by a brace.      *)

\* State st of a text with line k removed, line k having created nothing:
\* every line number above k is one less.
Unshift(st, k) ==
    LET D(n) == IF n > k THEN n - 1 ELSE n
        U(n) == IF n >= k THEN n + 1 ELSE n
        Moved(obj) ==
            IF "components" \in DOMAIN obj
            THEN [obj EXCEPT !.lineNumber = D(@),
                             !.components = [i \in 1..Len(@) |-> D(@[i])]]
            ELSE [obj EXCEPT !.lineNumber = D(@)]
        Renumbered(seq) == [i \in 1..Len(seq) |-> [seq[i] EXCEPT !.lineNumber = D(@)]]
    IN  [lineNumber |-> D(st.lineNumber),
         contextStack |-> [i \in 1..Len(st.contextStack) |->
                              [st.contextStack[i] EXCEPT !.container = D(@)]],
         heap |-> [id \in {D(j) : j \in DOMAIN st.heap} |-> Moved(st.heap[U(id)])],
         screens |-> [i \in 1..Len(st.screens) |-> D(st.screens[i])],
         navigationStacks |-> Renumbered(st.navigationStacks),
         links |-> Renumbered(st.links),
         errors |-> Renumbered(st.errors),
         pops |-> 0]

\* the next line is a content line: not blank, no comment, no closing brace
NextIsContent ==
    /\ IsSourceLine(lineNumber + 1)
    /\ ~stackEndRegex(ContentOf(lineNumber + 1))

C9_Step ==
    pc = "loop" /\ LinesLeft /\ NextIsContent =>
        \A i \in OpenStacks :
            IndentOf(lineNumber + 1) <= contextStack[i].baseIndent =>
                LET braced == ProcessLine(Cur, BraceLine(contextStack[i].baseIndent))
                    after == ProcessLine(braced, InputLines[lineNumber + 1])
                IN  /\ braced.errors = errors
                    /\ Len(braced.contextStack) = i - 1
                    /\ [Cur EXCEPT !.pops = 0]' = Unshift(after, lineNumber + 1)
                    /\ ParseResult(Finalize(Cur))' =
                          ParseResult(Finalize(Unshift(after, lineNumber + 1)))

\* C9: when a stack is open and the next line is a content line indented
\* no more than that stack, handling the line (the stack closing by
\* de-indentation) leaves the same tree, the same open contexts and the
\* same diagnostics as handling a closing brace at the stack's indentation
\* and then the line, up to the line numbers moved by the brace line; the
\* closing itself adds no diagnostic.
C9_BraceIndentEquivalence == [][C9_Step]_vars

\* two nested stacks closed by one de-indented component, without diagnostic
C9_Witness ==
    /\ pc = "loop"
    /\ lineNumber = 4
    /\ pops = 2
    /\ errors = <<>>
    /\ Len(contextStack) = 1
    /\ heap[1].components = <<2, 4>>
    /\ heap[2].kind = "stack" /\ heap[3].kind = "stack"
    /\ heap[2].components = <<3>>
    /\ IndentOf(4) = contextStack[1].baseIndent + IndentUnit

-----------------------------------------------------------------------------
(* C11: the wording of the unclosed-block diagnostic.                      *)

\* the message with the container kind as the source text writes it
UnclosedAsWritten(type) == "Unclosed " \o type \o " block started on this line (missing '}'?)."

\* C11: when the call has returned, every unclosed-block diagnostic names
\* the kind of the stack opened at its line as it is written in the text:
\* "Unclosed vertical_stack block started on this line (missing '}'?)." for
\* a vertical_stack, and the same with horizontal_stack.
C11_KindAsWritten ==
    pc = "done" =>
        \A e \in 1..Len(UnclosedDiags) :
            UnclosedDiags[e].message = UnclosedAsWritten(heap[UnclosedDiags[e].lineNumber].type)

-----------------------------------------------------------------------------
(* C12: a closing brace away from its stack's indentation.                 *)

\* the next line is a closing brace alone on its line
NextIsBrace ==
    /\ IsSourceLine(lineNumber + 1)
    /\ stackEndRegex(ContentOf(lineNumber + 1))

\* the innermost open context is a stack
StackOnTop == Len(contextStack) > 0 /\ heap[Top(contextStack).container].kind = "stack"

\* the diagnostics the step from this state adds
NewErrors == SubSeq(errors', Len(errors) + 1, Len(errors'))

C12_Step ==
    pc = "loop" /\ LinesLeft /\ NextIsBrace /\ StackOnTop
    /\ IndentOf(lineNumber + 1) # Top(contextStack).baseIndent =>
        \E e \in 1..Len(NewErrors) :
            NewErrors[e] = ParseError(lineNumber + 1,
                                      MsgMisplacedBrace(heap[Top(contextStack).container].type,
                                                        Top(contextStack).baseIndent,
                                                        IndentOf(lineNumber + 1)))

\* C12: a line that is only a closing brace, handled while a stack is the
\* innermost open context, at an indentation greater or smaller than that
\* stack's baseIndent, adds a misplaced-closing-brace diagnostic that names
\* that stack's kind, its baseIndent as expected and the line's
\* indentation as found.
C12_MisplacedBrace == [][C12_Step]_vars

-----------------------------------------------------------------------------
(* C13: what a misplaced closing brace closes.                             *)

IsMisplacedDiag(e) == HasPrefix(e.message, "Misplaced closing brace '}' for stack '")

C13_Step ==
    pc = "loop" /\ LinesLeft /\ NextIsBrace
    /\ (\E e \in 1..Len(NewErrors) : IsMisplacedDiag(NewErrors[e])) =>
        /\ StackOnTop
        /\ contextStack' = Pop(contextStack)
        /\ pops' = 1

\* C13: a closing-brace line that is reported as misplaced pops exactly one
\* context, the stack that was innermost before the line, so that the
\* parent of that stack is the context of the next line.
C13_PopsInnermost == [][C13_Step]_vars

-----------------------------------------------------------------------------
(* C14: the outer brace of two nested stacks at a wrong indentation.       *)

\* the last line of the text that is only a closing brace
LastBraceLine ==
    CHOOSE k \in 1..NumLines :
        /\ stackEndRegex(ContentOf(k))
        /\ \A j \in (k + 1)..NumLines : ~stackEndRegex(ContentOf(j))

\* the text with that brace at the indentation of the stack opened on line 2
WithBraceInPlace == [InputLines EXCEPT ![LastBraceLine] = BraceLine(IndentOf(2))]

\* C14: for a horizontal_stack nested in a vertical_stack in a screen, with
\* the inner brace in place and the outer brace at a wrong indentation,
\* the returned diagnostics are exactly one misplaced-closing-brace
\* diagnostic at the outer brace's line, naming the vertical_stack's
\* indentation as expected and the brace's as found, and the screens,
\* links and navigation of the result are those of the same text with the
\* outer brace in its place.
C14_Scenario6 ==
    pc = "done" =>
        /\ returned.errors =
              <<ParseError(LastBraceLine,
                           MsgMisplacedBrace("vertical_stack", IndentOf(2),
                                             IndentOf(LastBraceLine)))>>
        /\ [returned EXCEPT !.errors = <<>>] =
              ParseResult(Finalize(RunLines(FreshState, WithBraceInPlace)))

-----------------------------------------------------------------------------
(* C15: content after a closing brace on the same line.                    *)

\* the next line starts with a closing brace and has other content after it
NextIsBraceWithContent ==
    /\ IsSourceLine(lineNumber + 1)
    /\ Char(ContentOf(lineNumber + 1), 1) = "}"
    /\ ~stackEndRegex(ContentOf(lineNumber + 1))

C15_Step ==
    pc = "loop" /\ LinesLeft /\ NextIsBraceWithContent /\ StackOnTop
    /\ IndentOf(lineNumber + 1) = Top(contextStack).baseIndent =>
        /\ \E e \in 1..Len(NewErrors) :
              NewErrors[e] = ParseError(lineNumber + 1, MsgContentAfterBrace)
        /\ contextStack' = Pop(contextStack)

\* C15: a line that starts with a closing brace at the baseIndent of the
\* innermost open stack and carries other content after the brace adds the
\* diagnostic "Unexpected content after closing brace '}' on the same
\* line." at its line and closes that stack.
C15_ContentAfterBrace == [][C15_Step]_vars

-----------------------------------------------------------------------------
(* C16: a closing brace inside a screen.                                   *)

\* the innermost open context is a screen
ScreenOnTop == Len(contextStack) > 0 /\ heap[Top(contextStack).container].kind = "screen"

C16_Step ==
    pc = "loop" /\ LinesLeft /\ NextIsBrace /\ ScreenOnTop =>
        /\ errors' = Append(errors, ParseError(lineNumber + 1, MsgBraceInScreen))
        /\ contextStack' = contextStack
        /\ heap' = heap
        /\ UNCHANGED <<screens, navigationStacks, links>>

\* C16: a line that is only a closing brace, handled while a screen is the
\* top context, adds exactly the diagnostic 'Extraneous closing brace not
\* valid within a screen context' at its line and nothing else: the screen
\* stays open, at indentation 0 as well, and no element is added.
C16_BraceInScreen == [][C16_Step]_vars

\* a brace at indentation 0 in a screen, and a component added to the
\* screen by the line after it
C16_Witness ==
    /\ pc = "loop"
    /\ lineNumber = 3
    /\ ContentOf(2) = "}" /\ IndentOf(2) = 0
    /\ errors = <<ParseError(2, MsgBraceInScreen)>>
    /\ contextStack = <<[container |-> 1, baseIndent |-> 0]>>
    /\ heap[1].components = <<3>>

-----------------------------------------------------------------------------
(* C17: what closes a screen.                                              *)

\* the screen context of the stack is gone, or is that of a new screen
ScreenRemoved == Len(contextStack') = 0 \/ contextStack'[1] # contextStack[1]

C17_Step ==
    /\ pc = "loop" /\ LinesLeft /\ Len(contextStack) > 0 =>
        /\ heap[contextStack[1].container].kind = "screen"
        /\ ScreenRemoved <=> /\ IsSourceLine(lineNumber + 1)
                             /\ IndentOf(lineNumber + 1) = 0
                             /\ ~stackEndRegex(ContentOf(lineNumber + 1))
    /\ pc = "loop" /\ pc' = "done" => contextStack' = contextStack

\* C17: the screen context leaves the context stack exactly in the steps
\* that handle a line at indentation 0 that is not blank, no comment and
\* no closing brace; indented lines, closing braces, lines with
\* diagnostics, blank and comment lines and the end of the input leave it.
C17_ScreenCloses == [][C17_Step]_vars

\* a screen that stayed open over a brace, a blank line and a stack opened
\* in it, then closed by a line at indentation 0
C17_Witness ==
    /\ pc = "loop"
    /\ lineNumber = 4
    /\ IsScreenLine(1)
    /\ \E i \in 2..3 : ~IsSourceLine(i)
    /\ \E i \in 2..3 : stackEndRegex(ContentOf(i)) \/ verticalStackStartRegex(ContentOf(i))
    /\ IndentOf(4) = 0 /\ ~IsScreenLine(4) /\ IsSourceLine(4)
    /\ contextStack = <<>>
    /\ pops >= 1

-----------------------------------------------------------------------------
(* C18: a component at indentation 0 after a screen line.                  *)

\* the next line is a component line
NextIsComponent ==
    /\ IsSourceLine(lineNumber + 1)
    /\ \/ labelRegex(ContentOf(lineNumber + 1)).ok
       \/ inputRegex(ContentOf(lineNumber + 1)).ok
       \/ buttonRegex(ContentOf(lineNumber + 1)).ok
       \/ imageRegex(ContentOf(lineNumber + 1)).ok

C18_Step ==
    pc = "loop" /\ LinesLeft /\ NextIsComponent /\ ScreenOnTop
    /\ IndentOf(lineNumber + 1) = 0 =>
        /\ NewErrors = <<ParseError(lineNumber + 1,
                                    MsgIndentation(Top(contextStack).baseIndent + IndentUnit,
                                                   "screen", 0))>>
        /\ heap' = heap

\* C18: a label, input, button or image line at indentation 0, handled
\* while a screen is the open context, adds the diagnostic "Incorrect
\* indentation. Expected at least 2 spaces for content within 'screen'.
\* Found 0 spaces." and no component.
C18_UnindentedComponent == [][C18_Step]_vars

-----------------------------------------------------------------------------
(* C19: content at top level that is no top-level form.                    *)

\* the content of the next line matches none of the five top-level forms
NextIsNoTopLevelForm ==
    LET content == ContentOf(lineNumber + 1)
    IN  /\ IsSourceLine(lineNumber + 1)
        /\ ~screenRegex(content).ok
        /\ ~navigationStackRegex(content).ok
        /\ ~tabStackRegex(content).ok
        /\ ~drawerStackRegex(content).ok
        /\ ~screenLinkRegex(content).ok

C19_Step ==
    pc = "loop" /\ LinesLeft /\ NextIsNoTopLevelForm /\ contextStack = <<>> =>
        /\ errors' = Append(errors, ParseError(lineNumber + 1,
                                               MsgTopLevel(ContentOf(lineNumber + 1))))
        /\ heap' = heap
        /\ contextStack' = <<>>
        /\ UNCHANGED <<screens, navigationStacks, links>>

\* C19: a line that is not blank, no comment and none of the five
\* top-level forms, handled while no context is open, adds exactly one
\* 'Unexpected content at top level' diagnostic at its line, quoting its
\* content, and creates no screen, element, link or navigation config.
C19_TopLevelContent == [][C19_Step]_vars

\* an indented component and a stack opening before any screen
C19_Witness ==
    /\ pc = "done"
    /\ NumLines = 2
    /\ returned.errors = <<ParseError(1, MsgTopLevel("label \"x\"")),
                           ParseError(2, MsgTopLevel("vertical_stack {"))>>
    /\ IndentOf(1) = IndentUnit
    /\ returned.screens = <<>>
    /\ heap = <<>>

-----------------------------------------------------------------------------
(* C20: a tab_stack without screen names.                                  *)

\* line i is a tab_stack line at indentation 0 whose bracket list holds no
\* screen name: nothing, or white space and commas only
IsEmptyTabLine(i) ==
    LET content == ContentOf(i)
        opening == "tab_stack tabs=["
    IN  /\ IsSourceLine(i)
        /\ IndentOf(i) = 0
        /\ HasPrefix(content, opening)
        /\ Len(content) > Len(opening)
        /\ Char(content, Len(content)) = "]"
        /\ \A p \in (Len(opening) + 1)..(Len(content) - 1) :
              Char(content, p) \in WhiteSpace \cup {","}

C20_Step ==
    pc = "loop" /\ LinesLeft /\ IsEmptyTabLine(lineNumber + 1) /\ navigationStacks = <<>> =>
        /\ NewErrors = <<ParseError(lineNumber + 1, MsgEmptyTabs)>>
        /\ navigationStacks' = navigationStacks

C20_TabsRegistered ==
    \A i \in 1..Len(navigationStacks) :
        navigationStacks[i].type = "tab_stack" => Len(navigationStacks[i].tabs) > 0

\* C20: a tab_stack line at top level whose bracket list holds no screen
\* name, `tab_stack tabs=[]` included, adds the diagnostic 'tab_stack must
\* define at least one tab screen name.' and registers no config, so every
\* registered tab_stack config has at least one tab.
C20_EmptyTabs == []C20_TabsRegistered /\ [][C20_Step]_vars

-----------------------------------------------------------------------------
(* C21: image lines and the allow-list of their sources.                   *)

RECURSIVE ToLower(_)
ToLower(s) == IF s = "" THEN "" ELSE LowerCase(Char(s, 1)) \o ToLower(SubSeq(s, 2, Len(s)))

HasSuffix(s, suffix) ==
    Len(s) >= Len(suffix) /\ SubSeq(s, Len(s) - Len(suffix) + 1, Len(s)) = suffix

\* The allow-list as it is stated: a value that starts with http://,
\* https:// or ftp://; a value with a single leading "/" not followed by
\* "/"; a bare file name, one without "/", that ends in one of the five
\* extensions. Scheme and extension are read without regard to case and a
\* file name has a character before its extension, as the code has it.
SrcInAllowList(v) ==
    \/ \E scheme \in {"http://", "https://", "ftp://"} : HasPrefix(ToLower(v), scheme)
    \/ Len(v) >= 1 /\ Char(v, 1) = "/" /\ (Len(v) >= 2 => Char(v, 2) # "/")
    \/ \E ext \in {".png", ".jpg", ".jpeg", ".gif", ".svg"} :
          /\ HasSuffix(ToLower(v), ext)
          /\ Len(v) > Len(ext)
          /\ \A p \in 1..Len(v) : Char(v, p) # "/"

\* the narrower list of values that get no diagnostic: after the leading "/"
\* comes another character, and a file name has only letters, digits, "_"
\* and "-" before its extension
SrcInNarrowList(v) ==
    \/ \E scheme \in {"http://", "https://", "ftp://"} : HasPrefix(ToLower(v), scheme)
    \/ Len(v) >= 2 /\ Char(v, 1) = "/" /\ Char(v, 2) # "/"
    \/ \E ext \in {".png", ".jpg", ".jpeg", ".gif", ".svg"} :
          /\ HasSuffix(ToLower(v), ext)
          /\ Len(v) > Len(ext)
          /\ \A p \in 1..(Len(v) - Len(ext)) : Char(v, p) \in NameChars

\* the next line is an image line indented as content of the open context
NextIsImageInContext ==
    /\ IsSourceLine(lineNumber + 1)
    /\ imageRegex(ContentOf(lineNumber + 1)).ok
    /\ Len(contextStack) > 0
    /\ IndentOf(lineNumber + 1) >= Top(contextStack).baseIndent + IndentUnit

\* the image line appends the component with the value v as its src
ImageAppended(ln, v) ==
    LET parent == Top(contextStack).container
    IN  /\ DOMAIN heap' = DOMAIN heap \cup {ln}
        /\ heap'[ln] = [type |-> "image", src |-> v, lineNumber |-> ln]
        /\ heap'[parent].components = Append(heap[parent].components, ln)
        /\ contextStack' = contextStack

\* the image line adds one 'Invalid image src' diagnostic at its line
SrcReported(ln) ==
    /\ Len(NewErrors) = 1
    /\ NewErrors[1].lineNumber = ln
    /\ HasPrefix(NewErrors[1].message, "Invalid image src")

C21_Step ==
    pc = "loop" /\ LinesLeft /\ NextIsImageInContext =>
        LET ln == lineNumber + 1
            v == imageRegex(ContentOf(ln)).g1
        IN  /\ ImageAppended(ln, v)
            /\ IF SrcInAllowList(v) THEN NewErrors = <<>> ELSE SrcReported(ln)

\* C21: every image line handled as content of the open context appends
\* an image component with the value between the quotes as its src,
\* allowed or not, and adds an 'Invalid image src' diagnostic at its line
\* exactly when the value is outside the allow-list.
C21_ImageSrc == [][C21_Step]_vars

C21_NarrowStep ==
    pc = "loop" /\ LinesLeft /\ NextIsImageInContext =>
        LET ln == lineNumber + 1
            v == imageRegex(ContentOf(ln)).g1
        IN  /\ ImageAppended(ln, v)
            /\ IF SrcInNarrowList(v) THEN NewErrors = <<>> ELSE SrcReported(ln)

\* the component is always appended with the value as its src, and the
\* diagnostic is added exactly when the value is outside the narrower list
C21_NarrowList == [][C21_NarrowStep]_vars

\* an image with a file name that has a second dot, created and reported
C21_DottedNameReported ==
    /\ pc = "done"
    /\ NumLines = 2
    /\ heap[2] = [type |-> "image", src |-> "a.b.png", lineNumber |-> 2]
    /\ returned.errors = <<ParseError(2, MsgImageSrc("a.b.png"))>>

-----------------------------------------------------------------------------
(* C22: blank lines and comment lines.                                     *)

\* line i holds white space only
IsBlankLine(i) == \A p \in 1..Len(InputLines[i]) : Char(InputLines[i], p) \in WhiteSpace

\* the first characters of line i after its white space are "//" or "#"
IsCommentLine(i) ==
    LET text == InputLines[i]
    IN  \E p \in 1..Len(text) :
            /\ \A q \in 1..(p - 1) : Char(text, q) \in WhiteSpace
            /\ \/ Char(text, p) = "#"
               \/ p < Len(text) /\ SubSeq(text, p, p + 1) = "//"

C22_Step ==
    pc = "loop" /\ LinesLeft
    /\ (IsBlankLine(lineNumber + 1) \/ IsCommentLine(lineNumber + 1)) =>
        /\ lineNumber' = lineNumber + 1
        /\ UNCHANGED <<contextStack, heap, screens, navigationStacks, links, errors>>

\* C22: a blank line and a line whose first characters after optional
\* white space are // or # change nothing but the line counter, at any
\* indentation: context stack, screens and their elements, navigation,
\* links and diagnostics stay as they are, so a comment at indentation 0
\* closes neither an open screen nor an open stack.
C22_SkippedLines == [][C22_Step]_vars

\* a stack in a screen, still open after a comment at indentation 0, that
\* received the component of the next line
C22_Witness ==
    /\ pc = "loop"
    /\ lineNumber = 4
    /\ InputLines[3] = "# note"
    /\ verticalStackStartRegex(ContentOf(2))
    /\ Len(contextStack) = 2
    /\ heap[2].kind = "stack"
    /\ heap[2].components = <<4>>
    /\ errors = <<>>

-----------------------------------------------------------------------------
(* C23: comments after the content of a line.                              *)

\* the position of the first // or # of s outside double quotes, from
\* position p on; Len(s) + 1 if there is none
RECURSIVE CommentStart(_, _, _)
CommentStart(s, p, quoted) ==
    IF p > Len(s) THEN p
    ELSE IF Char(s, p) = "\"" THEN CommentStart(s, p + 1, ~quoted)
    ELSE IF ~quoted /\ (Char(s, p) = "#" \/ (p < Len(s) /\ SubSeq(s, p, p + 1) = "//"))
    THEN p
    ELSE CommentStart(s, p + 1, quoted)

\* the line without its trailing comment
WithoutComment(s) == SubSeq(s, 1, CommentStart(s, 1, FALSE) - 1)

\* C23: when the call has returned, the result of a text whose component,
\* stack-opening and closing-brace lines carry trailing // or # comments
\* is the result of the same text without those comments, and it holds no
\* diagnostic.
C23_TrailingComments ==
    pc = "done" =>
        /\ returned =
              ParseResult(Finalize(RunLines(FreshState,
                  [i \in 1..NumLines |-> WithoutComment(InputLines[i])])))
        /\ returned.errors = <<>>

-----------------------------------------------------------------------------
(* C24: a stack opened and closed on one line.                             *)

\* s is <keyword> { } with optional white space around and in the braces
IsInlineStack(s, keyword) ==
    LET p1 == Lit(s, 1, keyword)
        p2 == Star(s, p1, WhiteSpace)
        p3 == Lit(s, p2, "{")
        p4 == Star(s, p3, WhiteSpace)
        p5 == Lit(s, p4, "}")
    IN  AtEnd(s, p5)

C24_Step ==
    pc = "loop" /\ LinesLeft /\ IsSourceLine(lineNumber + 1) /\ ScreenOnTop
    /\ IndentOf(lineNumber + 1) >= Top(contextStack).baseIndent + IndentUnit =>
        \A type \in {"vertical_stack", "horizontal_stack"} :
            IsInlineStack(ContentOf(lineNumber + 1), type) =>
                LET ln == lineNumber + 1
                    screen == Top(contextStack).container
                IN  /\ DOMAIN heap' = DOMAIN heap \cup {ln}
                    /\ heap'[ln] = NewStack(type, ln)
                    /\ heap'[screen].components = Append(heap[screen].components, ln)
                    /\ NewErrors = <<>>
                    /\ contextStack' = contextStack

\* C24: a line `vertical_stack {}` or `horizontal_stack { }` indented as
\* content of the open screen appends an empty stack of that kind to the
\* screen, adds no diagnostic and leaves the screen as the open context.
C24_InlineStack == [][C24_Step]_vars

-----------------------------------------------------------------------------
(* The editor's linter: dslLinter(view, errors) of Editor.tsx.  The         *)
(* document is the sequence of its lines; positions are character offsets  *)
(* into the text, a line break counting one character.                     *)

\* view.state.doc.lines
DocLineCount(d) == Len(d)

\* the offset at which line n starts
RECURSIVE LineStart(_, _)
LineStart(d, n) == IF n = 1 THEN 0 ELSE LineStart(d, n - 1) + Len(d[n - 1]) + 1

\* view.state.doc.line(n): a RangeError for n outside 1..doc.lines
DocLine(d, n) ==
    IF n \in 1..DocLineCount(d)
    THEN [ok |-> TRUE, from |-> LineStart(d, n), to |-> LineStart(d, n) + Len(d[n])]
    ELSE [ok |-> FALSE]

\* InvalidLine without the test for line numbers below 1
InvalidLineAboveOnly(d, err) == err.lineNumber > DocLineCount(d)

\* err.lineNumber <= 0 || err.lineNumber > view.state.doc.lines
InvalidLine(d, err) == err.lineNumber <= 0 \/ err.lineNumber > DocLineCount(d)

\* the diagnostic pushed for an invalid line number
PlaceholderDiagnostic(err) ==
    [from |-> 0, to |-> 0, severity |-> "error",
     message |-> "L" \o ToString(err.lineNumber) \o ": " \o err.message
                     \o " (Error at invalid line)"]

\* the diagnostic pushed for a line of the document
LineDiagnostic(d, err) ==
    [from |-> DocLine(d, err.lineNumber).from, to |-> DocLine(d, err.lineNumber).to,
     severity |-> "error", message |-> err.message]

\* for (const err of errors) { ... } return diagnostics; an uncaught
\* RangeError of doc.line ends the call
dslLinter(d, errs) ==
    IF \E i \in 1..Len(errs) : ~InvalidLine(d, errs[i]) /\ ~DocLine(d, errs[i].lineNumber).ok
    THEN [status |-> "threw", error |-> "RangeError"]
    ELSE [status |-> "returned",
          value |-> [i \in 1..Len(errs) |->
                        IF InvalidLine(d, errs[i]) THEN PlaceholderDiagnostic(errs[i])
                        ELSE LineDiagnostic(d, errs[i])]]

\* Documents of a few lines and error lists whose line numbers lie in, below
\* and above the document
MaxDocLines == 2
MaxEditorErrors == 3
DocTexts == {"", "ab", "screen A"}
Docs == UNION {[1..n -> DocTexts] : n \in 1..MaxDocLines}
EditorErrorLists ==
    UNION {[1..n -> {ParseError(ln, "oops") : ln \in (0 - 1)..(MaxDocLines + 1)}] :
              n \in 0..MaxEditorErrors}

InitEditor ==
    /\ ParserIdle
    /\ CanvasAbsent
    /\ RendererAbsent
    /\ AppAbsent
    /\ doc \in Docs
    /\ editorErrors \in EditorErrorLists
    /\ diagnostics = NotLinted

\* the lint source runs: linter(view => dslLinter(view, errors))
Lint ==
    /\ diagnostics = NotLinted
    /\ diagnostics' = dslLinter(doc, editorErrors)
    /\ UNCHANGED <<doc, editorErrors, parserVars, rendererVars, appVars, canvasVars>>

NextEditor == Lint

SpecEditor == InitEditor /\ [][NextEditor]_vars

-----------------------------------------------------------------------------
(* C25: the linter is total and places every diagnostic.                   *)

\* the line breaks among the first k characters of s
BreaksBefore(s, k) == Cardinality({i \in 1..k : Char(s, i) = "\n"})

\* the range from..to is line n of the text: it holds the line's characters,
\* n - 1 line breaks precede it, and a line break or the end follows it
SpansLine(text, n, from, to) ==
    /\ 0 <= from /\ from <= to /\ to <= Len(text)
    /\ \A i \in (from + 1)..to : Char(text, i) # "\n"
    /\ BreaksBefore(text, from) = n - 1
    /\ (from = 0 \/ Char(text, from) = "\n")
    /\ (to = Len(text) \/ Char(text, to + 1) = "\n")

\* C25: dslLinter returns (it never throws) one diagnostic per ParseError, in
\* order: for a lineNumber in 1..doc.lines the diagnostic spans that line of
\* the document and carries the error's message, and for a lineNumber <= 0
\* or above the document's line count it has the placeholder range 0..0.
C25_LinterTotal ==
    diagnostics # NotLinted =>
        /\ diagnostics.status = "returned"
        /\ Len(diagnostics.value) = Len(editorErrors)
        /\ \A i \in 1..Len(editorErrors) :
              LET ln == editorErrors[i].lineNumber
                  dg == diagnostics.value[i]
              IN  /\ dg.severity = "error"
                  /\ IF ln \in 1..Len(doc)
                     THEN /\ SpansLine(Join(doc), ln, dg.from, dg.to)
                          /\ dg.message = editorErrors[i].message
                     ELSE dg.from = 0 /\ dg.to = 0

\* a two-line document linted with a stale error beyond its last line, an
\* error at line 0 and an error on its second, non-empty line
C25_Witness ==
    /\ diagnostics.status = "returned"
    /\ Len(doc) = 2 /\ doc[2] # "" /\ doc[1] # ""
    /\ Len(editorErrors) = 3
    /\ editorErrors[1].lineNumber = 3
    /\ editorErrors[2].lineNumber = 0
    /\ editorErrors[3].lineNumber = 2
    /\ diagnostics.value[3].from = Len(doc[1]) + 1

-----------------------------------------------------------------------------
(* The renderer: renderDslElement of Renderer.tsx.  A React element is a    *)
(* record of its tag, its attributes and its children.                     *)

\* String.prototype.startsWith
startsWith(s, prefix) == Len(s) >= Len(prefix) /\ SubSeq(s, 1, Len(prefix)) = prefix

\* !url, url || ...: undefined and the empty string are falsy
Falsy(url) == url = Undefined \/ url = Str("")

\* sanitizeUrl: undefined for no url, an empty url, and a url that starts
\* with 'javascript:' or 'data:'
sanitizeUrl(url) ==
    IF Falsy(url) THEN Undefined
    ELSE IF startsWith(url.value, "javascript:") \/ startsWith(url.value, "data:")
         THEN Undefined
    ELSE url

\* stack.type.replace('_', '-'): the first occurrence only
replaceUnderscoreByDash(s) ==
    LET k == StarNot(s, 1, {"_"})
    IN  IF k = Len(s) + 1 THEN s
        ELSE SubSeq(s, 1, k - 1) \o "-" \o SubSeq(s, k + 1, Len(s))

\* component.src, undefined on an object without the property
SrcOf(component) ==
    IF "src" \in DOMAIN component THEN Str(component.src) ELSE Undefined

\* case 'image': the div and, for a safe src, the img in it
RenderImage(component) ==
    LET safeSrc == sanitizeUrl(SrcOf(component))
    IN  [tag |-> "div", className |-> "wireframe-image",
         dataSrc |-> IF Falsy(SrcOf(component)) THEN "not specified"
                     ELSE SrcOf(component).value,
         children |-> IF ~Falsy(safeSrc)
                      THEN <<[tag |-> "img", src |-> safeSrc.value,
                              alt |-> "Wireframe: " \o SrcOf(component).value]>>
                      ELSE <<>>]

RECURSIVE renderDslElement(_)
renderDslElement(el) ==
    IF "components" \in DOMAIN el
    THEN [tag |-> "div",
          className |-> "wireframe-stack " \o replaceUnderscoreByDash(el.type),
          children |-> [i \in 1..Len(el.components) |-> renderDslElement(el.components[i])]]
    ELSE IF el.type = "label" THEN [tag |-> "p", className |-> "wireframe-label", text |-> el.text]
    ELSE IF el.type = "input"
         THEN [tag |-> "input", className |-> "wireframe-input", placeholder |-> el.placeholder]
    ELSE IF el.type = "button"
         THEN [tag |-> "button", className |-> "wireframe-button", text |-> el.text]
    ELSE IF el.type = "image" THEN RenderImage(el)
    ELSE [tag |-> "p", text |-> "Unknown component type: " \o el.type]

\* The first element of a screen of parsed texts: an image, or a stack of two
\* elements, with sources the parser accepts and sources it reports
RenderSrcs == {"https://a", "/a", "a.png", "x", "", "<undefined>", "javascript:a", "data:a",
               "JAVASCRIPT:a", "Data:a"}
RenderLines == {ImageLine(2 * IndentUnit, src) : src \in RenderSrcs}
                   \cup {"    label \"x\"", "    input", "    button \"y\""}
RenderInputs ==
    {Join(<<"screen A", ImageLine(IndentUnit, src)>>) : src \in RenderSrcs}
    \cup {Join(<<"screen A", "  horizontal_stack {", l1, l2>>) : l1 \in RenderLines, l2 \in RenderLines}

InitRenderer ==
    /\ ParserIdle
    /\ CanvasAbsent
    /\ EditorAbsent
    /\ AppAbsent
    /\ element \in {parseDsl(c).screens[1].components[1] : c \in RenderInputs}
    /\ rendered = NotRendered

\* screen.components.map((element, idx) => renderDslElement(element, idx)),
\* for one element
Render ==
    /\ rendered = NotRendered
    /\ rendered' = renderDslElement(element)
    /\ UNCHANGED <<element, parserVars, editorVars, appVars, canvasVars>>

NextRenderer == Render

SpecRenderer == InitRenderer /\ [][NextRenderer]_vars

-----------------------------------------------------------------------------
(* C26: image sources with a script or data scheme are not rendered.       *)

\* the img elements in a rendered tree
RECURSIVE Imgs(_)
Imgs(r) ==
    (IF r.tag = "img" THEN {r} ELSE {})
    \cup (IF "children" \in DOMAIN r
          THEN UNION {Imgs(r.children[i]) : i \in 1..Len(r.children)}
          ELSE {})

\* the url has the given scheme; a scheme is case-insensitive, as the
\* parser's own test of the http, https and ftp schemes reads it
UsesScheme(url, scheme) == startsWith(ToLower(url), scheme \o ":")

Blocked(url) == UsesScheme(url, "javascript") \/ UsesScheme(url, "data")

\* C26: every <img> the renderer emits for an image component of a parse
\* result has a src that does not use the javascript: or data: scheme.
C26_NoScriptImg ==
    rendered # NotRendered => \A img \in Imgs(rendered) : ~Blocked(img.src)

\* the same for the sources spelled in lower case, which are blocked
C26_LowerCaseBlocked ==
    rendered # NotRendered =>
        \A img \in Imgs(rendered) :
            ~startsWith(img.src, "javascript:") /\ ~startsWith(img.src, "data:")

-----------------------------------------------------------------------------
(* App: the text, the debounced parse and the active screen of App.tsx.    *)
(* A handler only calls state setters; React renders and runs the effect   *)
(* of a render afterwards. How App is mounted is not in the sources, so    *)
(* both roots are modelled. Legacy root (ReactDOM.render): a setter called *)
(* outside a React event handler renders at once, a React event handler    *)
(* renders when it returns, and the effect of a render runs later, at the  *)
(* latest before the next render. createRoot: updates made in a timer      *)
(* callback, and edits CodeMirror reports outside a discrete event, are    *)
(* queued and rendered later in one render whose effect runs later still;  *)
(* a discrete event renders its own updates and runs the effect at once,   *)
(* leaving queued updates of other hooks for the later render.             *)

initialCode ==
    "navigation_stack root=Welcome\n"
    \o "\n"
    \o "screen Welcome\n"
    \o "  vertical_stack {\n"
    \o "    label \"Welcome to Advanced Wireframe Studio!\"\n"
    \o "    input placeholder=\"Enter your name\"\n"
    \o "    horizontal_stack {\n"
    \o "      button \"Sign Up\"\n"
    \o "      button \"Login\"\n"
    \o "    }\n"
    \o "  }\n"
    \o "\n"
    \o "screen Dashboard\n"
    \o "  vertical_stack {\n"
    \o "    label \"User Dashboard\"\n"
    \o "    image src=\"dashboard-graph.png\"\n"
    \o "    button \"View Stats\"\n"
    \o "  }\n"
    \o "\n"
    \o "screen Settings\n"
    \o "  label \"App Settings\"\n"
    \o "\n"
    \o "Welcome -> Dashboard\n"
    \o "Dashboard -> Settings\n"

\* a Screen object of the parseDsl call number p
ScreenObject(p, scr) == [parse |-> p, screen |-> scr]

\* activeScreen?.name
NameOf(active) == IF active = Null THEN Undefined ELSE Str(active.screen.name)

\* screens.find(s => s.name === name): the index of the first such screen, 0 for none
Find(scr, name) ==
    IF \E i \in 1..Len(scr) : scr[i].name = name
    THEN CHOOSE i \in 1..Len(scr) :
             scr[i].name = name /\ \A j \in 1..(i - 1) : scr[j].name # name
    ELSE 0

\* screens.find(s => s.name === activeScreen?.name): undefined is no name
FindName(scr, name) == IF name = Undefined THEN 0 ELSE Find(scr, name.value)

\* the timer callback's choice of the active screen (lines 54-63):
\* activeName is the activeScreen?.name the callback closed over
ActiveAfterParse(p, result, activeName) ==
    IF Len(result.screens) > 0
    THEN IF FindName(result.screens, activeName) # 0
         THEN ScreenObject(p, result.screens[FindName(result.screens, activeName)])
         ELSE ScreenObject(p, result.screens[1])
    ELSE Null

\* clearTimeout(handler)
clearTimeout(ts, id) == {t \in ts : t.id # id}

\* the id setTimeout returns: one that names no pending timer and not the
\* timer of the previous effect
NewTimerId(ts, h) == CHOOSE n \in 1..(Cardinality(ts) + 2) : n # h /\ \A t \in ts : t.id # n

\* the two ways index.tsx can mount App
Roots == {"legacy", "createRoot"}

\* no effect has run yet; no timer callback is in the middle of its setters
NoDeps == <<>>
NoCallback == [kind |-> "none"]

\* useEffect(..., [dslCode, activeScreen?.name]) of the render with the state
\* c, a, when the effect last ran with the dependencies deps, the timers ts
\* are pending and h is the timer of the last effect: with a dependency
\* changed, the cleanup of the last effect and then the effect, which closes
\* over c and a
Effect(ts, h, deps, c, a) ==
    IF deps = <<c, NameOf(a)>>
    THEN [timers |-> ts, handler |-> h, effectDeps |-> deps]
    ELSE [timers |-> clearTimeout(ts, h)
                        \cup {[id |-> NewTimerId(ts, h), code |-> c, activeName |-> NameOf(a),
                           due |-> FALSE]},
          handler |-> NewTimerId(ts, h),
          effectDeps |-> <<c, NameOf(a)>>]

\* timers, handler and effectDeps once the effect of the last render has run
Flushed == Effect(timers, handler, effectDeps, dslCode, activeScreen)

SetEffects(r) ==
    /\ timers' = r.timers
    /\ handler' = r.handler
    /\ effectDeps' = r.effectDeps

\* React runs the effect that is still due for the last render before it
\* renders again; the effect of the new render stays due (legacy root, and
\* every render that no discrete event caused) or runs with the commit (a
\* discrete event under createRoot)
AfterRender(ts, c, a, atOnce) ==
    LET due == Effect(ts, handler, effectDeps, dslCode, activeScreen)
    IN  IF atOnce
        THEN SetEffects(Effect(due.timers, due.handler, due.effectDeps, c, a))
        ELSE SetEffects(due)

\* The updates queued for the later render, by state hook. Every setter is
\* called with a value, so of the updates of one hook, applied in order, the
\* last one stays: the queue keeps that one.
NoUpdates == [hook \in {} |-> Null]
Queued(hook) == hook \in DOMAIN updates
Enqueue(q, hook, value) ==
    [h \in DOMAIN q \cup {hook} |-> IF h = hook THEN value ELSE q[h]]

\* an update a discrete event has rendered stays behind a queued update of
\* the same hook and is applied again, in order, by the later render
Rebased(hook, value) ==
    IF Queued(hook) THEN Enqueue(updates, hook, value) ELSE updates

\* the value of a state hook after the queued updates
Applied(hook, current) == IF Queued(hook) THEN updates[hook] ELSE current

\* the state after the first render; its effect is still due
InitApp ==
    /\ ParserIdle
    /\ CanvasAbsent
    /\ EditorAbsent
    /\ RendererAbsent
    /\ root \in Roots
    /\ dslCode = initialCode
    /\ parseOutput = [parse |-> 0, result |-> NoResult]
    /\ activeScreen = Null
    /\ viewMode = "singleScreen"
    /\ updates = NoUpdates
    /\ callback = NoCallback
    /\ timers = {}
    /\ handler = 0
    /\ effectDeps = NoDeps
    /\ parses = 0

\* React has work left that it scheduled when the state changed: queued
\* updates to render, or the effect of the last render
ReactHasWork ==
    \/ updates # NoUpdates
    \/ effectDeps # <<dslCode, NameOf(activeScreen)>>

\* The 300 ms of the timer t are over. With promptly, the work React has
\* scheduled before was done within the 300 ms.
Elapse(t, promptly) ==
    /\ callback = NoCallback
    /\ t \in timers
    /\ ~t.due
    /\ promptly => ~ReactHasWork
    /\ timers' = (timers \ {t}) \cup {[t EXCEPT !.due = TRUE]}
    /\ UNCHANGED <<root, dslCode, parseOutput, activeScreen, viewMode, updates, callback,
                   handler, effectDeps, parses, parserVars, editorVars, rendererVars,
                   canvasVars>>

\* the effect that is due for the last render runs
RunEffect ==
    /\ callback = NoCallback
    /\ Flushed # [timers |-> timers, handler |-> handler, effectDeps |-> effectDeps]
    /\ SetEffects(Flushed)
    /\ UNCHANGED <<root, dslCode, parseOutput, activeScreen, viewMode, updates, callback,
                   parses, parserVars, editorVars, rendererVars, canvasVars>>

\* the text of the editor: the value of the last setDslCode
LatestText == Applied("dslCode", dslCode)

\* handleEditorChange(value): setDslCode(value). CodeMirror calls it from its
\* update listener when the document has changed: rendered at once by a
\* legacy root and in a discrete event, queued otherwise
handleEditorChange(value) ==
    /\ callback = NoCallback
    /\ value # LatestText
    /\ \/ /\ dslCode' = value
          /\ updates' = Rebased("dslCode", value)
          /\ AfterRender(timers, value, activeScreen, root = "createRoot")
       \/ /\ root = "createRoot"
          /\ updates' = Enqueue(updates, "dslCode", value)
          /\ UNCHANGED <<dslCode, timers, handler, effectDeps>>
    /\ UNCHANGED <<root, parseOutput, activeScreen, viewMode, callback, parses,
                   parserVars, editorVars, rendererVars, canvasVars>>

\* the callback of setTimeout(..., 300) runs: parseDsl of the text it closed
\* over, setParseOutput, and the setActiveScreen of lines 54-63. A legacy
\* root renders in setParseOutput, before the callback goes on; createRoot
\* queues both updates
TimerFires(t, maxParses) ==
    /\ callback = NoCallback
    /\ t \in timers
    /\ t.due
    /\ parses < maxParses
    /\ \E result \in {parseDsl(t.code)} :
          \E active \in {ActiveAfterParse(parses + 1, result, t.activeName)} :
              IF root = "legacy"
              THEN /\ parseOutput' = [parse |-> parses + 1, result |-> result]
                   /\ callback' = [kind |-> "setActiveScreen", value |-> active]
                   /\ AfterRender(timers \ {t}, dslCode, activeScreen, FALSE)
                   /\ UNCHANGED updates
              ELSE /\ updates' = Enqueue(Enqueue(updates, "parseOutput",
                                               [parse |-> parses + 1, result |-> result]),
                                       "activeScreen", active)
                   /\ timers' = timers \ {t}
                   /\ UNCHANGED <<parseOutput, callback, handler, effectDeps>>
    /\ parses' = parses + 1
    /\ UNCHANGED <<root, dslCode, activeScreen, viewMode, parserVars, editorVars,
                   rendererVars, canvasVars>>

\* legacy root: the timer callback goes on after the render of setParseOutput
\* and calls setActiveScreen, which renders again
TimerContinues ==
    /\ callback # NoCallback
    /\ activeScreen' = callback.value
    /\ callback' = NoCallback
    /\ AfterRender(timers, dslCode, callback.value, FALSE)
    /\ UNCHANGED <<root, dslCode, parseOutput, viewMode, updates, parses,
                   parserVars, editorVars, rendererVars, canvasVars>>

\* createRoot: the render of the queued updates; its effect runs later
RenderQueued ==
    /\ updates # NoUpdates
    /\ dslCode' = Applied("dslCode", dslCode)
    /\ parseOutput' = Applied("parseOutput", parseOutput)
    /\ activeScreen' = Applied("activeScreen", activeScreen)
    /\ AfterRender(timers, Applied("dslCode", dslCode), Applied("activeScreen", activeScreen),
                   FALSE)
    /\ updates' = NoUpdates
    /\ UNCHANGED <<root, viewMode, callback, parses,
                   parserVars, editorVars, rendererVars, canvasVars>>

\* parseOutput.screens.find(s => s.name === screenName), with the parseOutput
\* of the last render: the index of the entry found, 0 for undefined
selected(screenName) == Find(parseOutput.result.screens, screenName)

\* handleScreenSelect(screenName): a React event handler, rendered when it
\* returns
handleScreenSelect(screenName) ==
    LET found == selected(screenName)
        active == ScreenObject(parseOutput.parse, parseOutput.result.screens[found])
    IN  /\ callback = NoCallback
        /\ found # 0
        /\ activeScreen' = active
        /\ viewMode' = "singleScreen"
        /\ updates' = Rebased("activeScreen", active)
        /\ AfterRender(timers, dslCode, active, root = "createRoot")
        /\ UNCHANGED <<root, dslCode, parseOutput, callback, parses,
                       parserVars, editorVars, rendererVars, canvasVars>>

\* ScreenSwitcher: the button of the i-th listed screen, shown in the single
\* screen view, calls onScreenSelect(screen.name)
ScreenSwitcherClick(i) ==
    /\ viewMode = "singleScreen"
    /\ i \in 1..Len(parseOutput.result.screens)
    /\ handleScreenSelect(parseOutput.result.screens[i].name)

\* the two buttons of the view mode switcher
setViewMode(mode) ==
    /\ callback = NoCallback
    /\ mode # viewMode
    /\ viewMode' = mode
    /\ AfterRender(timers, dslCode, activeScreen, root = "createRoot")
    /\ UNCHANGED <<root, dslCode, parseOutput, activeScreen, updates, callback, parses,
                   parserVars, editorVars, rendererVars, canvasVars>>

\* Edits among a few texts: no screen, two screens, two other screens, one
\* name twice; selections of names that exist and of one that does not
MaxParses == 2
MaxListed == 3
AppTexts == {"", "screen A\nscreen B", "screen B\n  label \"x\"\nscreen C",
             "screen A\n  label \"x\"\nscreen A"}
SelectNames == {"A", "B", "C", "Dashboard", "Z"}

NextApp ==
    \/ \E value \in AppTexts \cup {initialCode} : handleEditorChange(value)
    \/ \E t \in timers : Elapse(t, FALSE)
    \/ \E t \in timers : TimerFires(t, MaxParses)
    \/ TimerContinues
    \/ RenderQueued
    \/ RunEffect
    \/ \E name \in SelectNames : handleScreenSelect(name)
    \/ \E i \in 1..MaxListed : ScreenSwitcherClick(i)
    \/ \E mode \in {"singleScreen", "storyboard"} : setViewMode(mode)

SpecApp == InitApp /\ [][NextApp]_vars

\* The user edits, selects and switches views only until MaxEditedParses
\* parses have been made; room is left for SettleParses parses more. The
\* render and the effect React has scheduled run within the 300 ms of a
\* timer set in the same task or later.
MaxEditedParses == 2
SettleParses == 3
UserActs == parses < MaxEditedParses

\* the user selects a screen or switches the view
UserSelects ==
    \/ \E name \in SelectNames : handleScreenSelect(name)
    \/ \E i \in 1..MaxListed : ScreenSwitcherClick(i)
    \/ \E mode \in {"singleScreen", "storyboard"} : setViewMode(mode)

NextAppQuiet ==
    \/ UserActs /\ \E value \in AppTexts \cup {initialCode} : handleEditorChange(value)
    \/ \E t \in timers : Elapse(t, TRUE)
    \/ \E t \in timers : TimerFires(t, MaxEditedParses + SettleParses)
    \/ TimerContinues
    \/ RenderQueued
    \/ RunEffect
    \/ UserActs /\ \E name \in SelectNames : handleScreenSelect(name)
    \/ UserActs /\ \E i \in 1..MaxListed : ScreenSwitcherClick(i)
    \/ UserActs /\ \E mode \in {"singleScreen", "storyboard"} : setViewMode(mode)

\* a timer callback ran in this step: no other action counts a parse
TimerFired == parses' = parses + 1

\* the effect of the last render is still due
EffectDue == effectDeps # <<dslCode, NameOf(activeScreen)>>

\* What React and the browser do in the end: the delay of a pending timer
\* passes, a timeout callback that is due and not cleared runs, a callback
\* that has begun goes on, queued updates are rendered and a due effect
\* runs. Each is weak fairness of the action; for the timer callback it is
\* written with the enabling condition and the step spelled out.
TimerCanFire ==
    /\ \E t \in timers : t.due
    /\ callback = NoCallback
    /\ parses < MaxEditedParses + SettleParses
DelayFair == WF_vars(\E t \in timers : Elapse(t, TRUE))
TimersFair ==
    []<>(~TimerCanFire) \/ []<><<TimerFired>>_vars
CallbackFair == WF_vars(TimerContinues)
RenderFair == WF_vars(RenderQueued)
EffectFair == WF_vars(RunEffect)

SpecAppQuiet ==
    /\ InitApp
    /\ [][NextAppQuiet]_vars
    /\ DelayFair /\ TimersFair /\ CallbackFair /\ RenderFair /\ EffectFair

-----------------------------------------------------------------------------
(* C27: the debounced parse.                                               *)

\* the parse output as of the latest setParseOutput, rendered or not
LatestOutput == Applied("parseOutput", parseOutput)

\* the timer callback that runs in this step belongs to a timer whose text
\* is the current text, and the output it sets is the parse of the current
\* text
C27_Step ==
    TimerFired =>
        /\ \A t \in timers : t.due /\ t \notin timers' => t.code = LatestText
        /\ LatestOutput'.result = parseDsl(LatestText)

\* C27: at most one parse timer is pending at any time, and a timer
\* callback never parses a text that a later edit has superseded: it parses
\* the text that is current when it runs, which becomes the parse output.
C27_Debounce == [](Cardinality(timers) <= 1) /\ [][C27_Step]_vars

\* at most one timer is pending
C27_OneTimer == Cardinality(timers) <= 1

\* a timer callback that runs when no edit waits for its effect parses the
\* current text
C27_SettledStep ==
    TimerFired /\ dslCode = LatestText /\ effectDeps # NoDeps /\ effectDeps[1] = dslCode =>
        LatestOutput'.result = parseDsl(LatestText)
C27_ParsesCurrentWhenSettled == [][C27_SettledStep]_vars

-----------------------------------------------------------------------------
(* C28: the active screen.                                                 *)

\* activeScreen is null or one of the Screen objects of parseOutput.screens
ActiveInOutput ==
    \/ activeScreen = Null
    \/ /\ activeScreen.parse = parseOutput.parse
       /\ \E i \in 1..Len(parseOutput.result.screens) :
              parseOutput.result.screens[i] = activeScreen.screen

\* the step that renders the setActiveScreen of a timer callback
ParseApplied ==
    \/ callback # NoCallback /\ callback' = NoCallback
    \/ Queued("activeScreen") /\ updates' = NoUpdates

C28_Step ==
    ParseApplied =>
        LET scr == parseOutput'.result.screens
        IN  IF Len(scr) = 0 THEN activeScreen' = Null
            ELSE /\ activeScreen' # Null
                 /\ IF \E i \in 1..Len(scr) : Str(scr[i].name) = NameOf(activeScreen)
                    THEN Str(activeScreen'.screen.name) = NameOf(activeScreen)
                    ELSE activeScreen'.screen = scr[1]

\* C28: after a parse is applied activeScreen is null if the result has no
\* screens, else a screen of the result with the previously active name if
\* there is one, else the first screen of the result; and in every state
\* activeScreen is null or an element of the current parseOutput.screens.
C28_ActiveScreen == []ActiveInOutput /\ [][C28_Step]_vars

-----------------------------------------------------------------------------
(* C29: a closing brace at the indentation of an open stack.               *)

\* A screen, up to MaxOpened stack lines at indentations 2, 4, 6 and 7, a
\* closing brace at any indentation up to MaxBraceIndent, and then nothing,
\* a component or another closing brace
MaxOpened == 3
MaxBraceIndent == 7
StackLines == {"  vertical_stack {", "    horizontal_stack {", "      vertical_stack {",
               "       horizontal_stack {"}
AfterBrace == {<<>>, <<"    label \"x\"">>, <<"  }">>}
ClosingInputs ==
    UNION {{Join(<<"screen A">> \o opened \o <<BraceLine(b)>> \o after) :
                opened \in [1..n -> StackLines], b \in 0..MaxBraceIndent, after \in AfterBrace} :
              n \in 1..MaxOpened}

NextClosing ==
    \/ ParseDsl(ClosingInputs)
    \/ ParseLine
    \/ EndOfInput

SpecClosing == Init /\ [][NextClosing]_vars

C29_Step ==
    pc = "loop" /\ LinesLeft /\ NextIsBrace =>
        \A k \in OpenStacks :
            contextStack[k].baseIndent = IndentOf(lineNumber + 1) =>
                /\ contextStack' = SubSeq(contextStack, 1, k - 1)
                /\ errors' = errors
                /\ heap' = heap
                /\ screens' = screens
                /\ navigationStacks' = navigationStacks
                /\ links' = links

\* C29: a line that is only a closing brace, at the baseIndent of an open
\* stack C, removes C and every context above it from the context stack and
\* nothing else: the contexts below C stay, no diagnostic is added, and no
\* element, screen, link or navigation entry is added or changed.
C29_BraceClosesNested == [][C29_Step]_vars

\* three nested stacks; the brace of line 5, at the indentation of the
\* second, closed the second and the third and left the first open
C29_Witness ==
    /\ pc = "loop"
    /\ lineNumber = 5
    /\ stackEndRegex(ContentOf(5))
    /\ InputLines[3] = "    horizontal_stack {"
    /\ IndentOf(4) > 4
    /\ IndentOf(5) = 4
    /\ pops = 2
    /\ Len(contextStack) = 2
    /\ Top(contextStack).container = 2
    /\ errors = <<>>

-----------------------------------------------------------------------------
(* C30: where a component or a stack is attached.                          *)

\* the next line opens a stack
NextIsStackStart ==
    /\ IsSourceLine(lineNumber + 1)
    /\ \/ verticalStackStartRegex(ContentOf(lineNumber + 1))
       \/ horizontalStackStartRegex(ContentOf(lineNumber + 1))

\* the open contexts left of indentation i
ContextsLeftOf(i) == {k \in DOMAIN contextStack : contextStack[k].baseIndent < i}

\* the innermost of them
InnermostLeftOf(i) == CHOOSE k \in ContextsLeftOf(i) : \A j \in ContextsLeftOf(i) : j <= k

C30_Step ==
    pc = "loop" /\ LinesLeft /\ (NextIsComponent \/ NextIsStackStart)
    /\ Len(contextStack) > 0 /\ ContextsLeftOf(IndentOf(lineNumber + 1)) # {} =>
        LET ln == lineNumber + 1
            i == IndentOf(ln)
            k == InnermostLeftOf(i)
            parent == contextStack[k].container
        IN  i >= contextStack[k].baseIndent + IndentUnit =>
                /\ ln \in DOMAIN heap'
                /\ heap'[ln].lineNumber = ln
                /\ heap'[parent].components = Append(heap[parent].components, ln)
                /\ \A id \in DOMAIN heap : id # parent => heap'[id] = heap[id]
                /\ DOMAIN heap' = DOMAIN heap \cup {ln}
                /\ screens' = screens
                /\ IF NextIsStackStart
                   THEN /\ heap'[ln].kind = "stack"
                        /\ heap'[ln].components = <<>>
                        /\ contextStack' = Append(SubSeq(contextStack, 1, k),
                                                  [container |-> ln, baseIndent |-> i])
                   ELSE /\ "components" \notin DOMAIN heap'[ln]
                        /\ contextStack' = SubSeq(contextStack, 1, k)

\* C30: a component line or a stack-opening line at indentation i, handled
\* while a context is open, becomes the last child of the innermost open
\* context whose baseIndent is smaller than i, if i is at least that
\* baseIndent + 2: every context above it is closed, no other object's
\* children change, and a stack-opening line pushes a context with
\* baseIndent i for the new stack.
C30_AttachedToInnermost == [][C30_Step]_vars

\* two nested stacks open, then a component at the indentation of the outer
\* one: both are closed and the component is the second child of the screen
C30_Witness ==
    /\ pc = "loop"
    /\ lineNumber = 4
    /\ NumLines = 4
    /\ InputLines[2] = "  vertical_stack {"
    /\ InputLines[3] = "    horizontal_stack {"
    /\ InputLines[4] = "  label \"z\""
    /\ heap[1].components = <<2, 4>>
    /\ heap[2].components = <<3>>
    /\ Len(contextStack) = 1

-----------------------------------------------------------------------------
(* C31: the order of the diagnostics.                                      *)

\* the group of a diagnostic: 1 raised in the line pass, 2 the unclosed
\* block, 3 an undefined end of a link
DiagGroup(e) == IF IsLinkDiag(e) THEN 3 ELSE IF IsUnclosedDiag(e) THEN 2 ELSE 1

IsSourceDiag(e) == HasPrefix(e.message, "Source screen \"")
IsDestinationDiag(e) == HasPrefix(e.message, "Destination screen \"")

\* diagnostic a may stand before diagnostic b
InOrder(a, b) ==
    /\ DiagGroup(a) <= DiagGroup(b)
    /\ DiagGroup(a) = 1 /\ DiagGroup(b) = 1 => a.lineNumber <= b.lineNumber
    /\ ~(DiagGroup(a) = 2 /\ DiagGroup(b) = 2)
    /\ DiagGroup(a) = 3 /\ DiagGroup(b) = 3 =>
          \/ a.lineNumber < b.lineNumber
          \/ a.lineNumber = b.lineNumber /\ IsSourceDiag(a) /\ IsDestinationDiag(b)

\* C31: in result.errors the diagnostics of the line pass come first, in
\* non-decreasing lineNumber order, then at most one unclosed-block
\* diagnostic, then the link diagnostics in the order of the link lines,
\* source before destination for one link.
C31_DiagnosticOrder ==
    \A i \in DOMAIN errors : \A j \in DOMAIN errors : i < j => InOrder(errors[i], errors[j])

\* a returned result with a diagnostic of each group: a line-pass diagnostic,
\* the unclosed block of a later line, the undefined destination of a link
\* declared before that block
C31_Witness ==
    /\ pc = "done"
    /\ Len(errors) = 3
    /\ DiagGroup(errors[1]) = 1
    /\ IsUnclosedDiag(errors[2])
    /\ IsDestinationDiag(errors[3])
    /\ errors[3].lineNumber < errors[2].lineNumber

-----------------------------------------------------------------------------
(* C32: the shape of the context stack.                                    *)

\* C32: the context stack is empty, or its first context is the screen
\* registered last, at baseIndent 0, and every further context is a stack
\* whose baseIndent is at least 2 more than that of the context below it
\* and which is the last child of the container of the context below it.
C32_ContextStackShape ==
    \/ contextStack = <<>>
    \/ /\ heap[contextStack[1].container].kind = "screen"
       /\ contextStack[1].baseIndent = 0
       /\ Len(screens) > 0
       /\ contextStack[1].container = screens[Len(screens)]
       /\ \A k \in 2..Len(contextStack) :
              LET below == heap[contextStack[k - 1].container].components
              IN  /\ heap[contextStack[k].container].kind = "stack"
                  /\ contextStack[k].baseIndent >= contextStack[k - 1].baseIndent + 2
                  /\ Len(below) > 0
                  /\ below[Len(below)] = contextStack[k].container

\* a screen with a component and then two nested stacks, both open
C32_Witness ==
    /\ pc = "loop"
    /\ Len(contextStack) = 3
    /\ Len(heap[contextStack[1].container].components) = 2
    /\ contextStack[3].baseIndent = 4

-----------------------------------------------------------------------------
(* C33: no line is dropped silently.                                       *)

\* the step neither adds a diagnostic nor changes the result or the contexts
SilentStep ==
    /\ errors' = errors
    /\ heap' = heap
    /\ screens' = screens
    /\ links' = links
    /\ navigationStacks' = navigationStacks
    /\ contextStack' = contextStack

\* the next line has the form of a screen, link or navigation line
NextHasTopLevelForm ==
    \/ screenRegex(ContentOf(lineNumber + 1)).ok
    \/ screenLinkRegex(ContentOf(lineNumber + 1)).ok
    \/ navigationStackRegex(ContentOf(lineNumber + 1)).ok
    \/ tabStackRegex(ContentOf(lineNumber + 1)).ok
    \/ drawerStackRegex(ContentOf(lineNumber + 1)).ok

C33_Step == pc = "loop" /\ LinesLeft /\ IsSourceLine(lineNumber + 1) => ~SilentStep

\* C33: handling a line that is neither blank nor a comment adds a
\* diagnostic, or changes the screens, links, navigation entries, elements
\* or the context stack.
C33_NoSilentDrop == [][C33_Step]_vars

C33_OtherStep ==
    pc = "loop" /\ LinesLeft /\ IsSourceLine(lineNumber + 1)
    /\ ~(contextStack = <<>> /\ IndentOf(lineNumber + 1) > 0 /\ NextHasTopLevelForm)
        => ~SilentStep

\* the same for every line but a screen, link or navigation line that is
\* indented while no context is open
C33_OtherLinesNotDropped == [][C33_OtherStep]_vars

-----------------------------------------------------------------------------
(* C34: the number of diagnostics.                                         *)

\* the lines of the text that are neither blank nor comments
SourceLineCount == Cardinality({i \in 1..NumLines : IsSourceLine(i)})

\* the next line is only a closing brace at the baseIndent of an open stack
NextIsBraceOfOpenStack ==
    /\ NextIsBrace
    /\ \E k \in OpenStacks : contextStack[k].baseIndent = IndentOf(lineNumber + 1)

C34_Step ==
    pc = "loop" /\ LinesLeft =>
        /\ Len(errors') <= Len(errors) + 1
        /\ ~IsSourceLine(lineNumber + 1) \/ NextIsBraceOfOpenStack => errors' = errors

C34_Total == pc = "done" => Len(errors) <= SourceLineCount + 1 + 2 * Len(links)

\* C34: a line adds at most one diagnostic during the line pass, and a
\* blank line, a comment line and a closing brace at the baseIndent of an
\* open stack add none; a returned result has at most (lines that are
\* neither blank nor comments) + 1 + 2 * (links) diagnostics.
C34_DiagnosticCount == [][C34_Step]_vars /\ []C34_Total

\* four lines, a blank one and a comment among them, a line with a
\* diagnostic and a link with both ends undefined: two lines that count
\* and three diagnostics
C34_Witness ==
    /\ pc = "done"
    /\ NumLines = 4
    /\ SourceLineCount = 2
    /\ \E i \in 1..NumLines : IsBlankLine(i)
    /\ \E i \in 1..NumLines : IsCommentLine(i)
    /\ Len(links) = 1
    /\ Len(errors) = 3

-----------------------------------------------------------------------------
(* C35: the document tree.                                                 *)

IsContainerObject(obj) == "components" \in DOMAIN obj
IsScreenObject(obj) == "kind" \in DOMAIN obj /\ obj.kind = "screen"

\* the places <<container, index>> at which object k is a child
PlacesOf(k) ==
    {p \in UNION {{<<id, i>> : i \in 1..Len(heap[id].components)} :
                     id \in {c \in DOMAIN heap : IsContainerObject(heap[c])}} :
        heap[p[1]].components[p[2]] = k}

StrictlyIncreasing(seq) == \A i \in 1..(Len(seq) - 1) : seq[i] < seq[i + 1]

\* line k of the text declares the object obj
Declares(k, obj) ==
    /\ k \in 1..NumLines
    /\ IF IsScreenObject(obj)
       THEN screenRegex(ContentOf(k)).ok /\ screenRegex(ContentOf(k)).g1 = obj.name
       ELSE IF IsContainerObject(obj)
       THEN IF obj.type = "vertical_stack" THEN verticalStackStartRegex(ContentOf(k))
            ELSE obj.type = "horizontal_stack" /\ horizontalStackStartRegex(ContentOf(k))
       ELSE IF obj.type = "label"
       THEN labelRegex(ContentOf(k)).ok /\ labelRegex(ContentOf(k)).g1 = obj.text
       ELSE IF obj.type = "button"
       THEN buttonRegex(ContentOf(k)).ok /\ buttonRegex(ContentOf(k)).g1 = obj.text
       ELSE IF obj.type = "input" THEN inputRegex(ContentOf(k)).ok
       ELSE obj.type = "image" /\ imageRegex(ContentOf(k)).ok

\* C35: every element is a child at exactly one place and of a container
\* declared on an earlier line, a screen is a child nowhere and is listed
\* once, the children of every container and the list of screens are in
\* strictly increasing lineNumber order, and every lineNumber is the 1-based
\* line of the text that declares the object.
C35_TreeWellFormed ==
    /\ StrictlyIncreasing([i \in 1..Len(screens) |-> heap[screens[i]].lineNumber])
    /\ \A k \in DOMAIN heap :
          /\ Declares(heap[k].lineNumber, heap[k])
          /\ heap[k].lineNumber = k
          /\ IsContainerObject(heap[k]) =>
                StrictlyIncreasing([i \in 1..Len(heap[k].components) |->
                                       heap[heap[k].components[i]].lineNumber])
          /\ IF IsScreenObject(heap[k])
             THEN PlacesOf(k) = {} /\ Cardinality({i \in 1..Len(screens) : screens[i] = k}) = 1
             ELSE /\ Cardinality(PlacesOf(k)) = 1
                  /\ \A p \in PlacesOf(k) : heap[p[1]].lineNumber < heap[k].lineNumber
                  /\ \A i \in 1..Len(screens) : screens[i] # k

\* a returned result of two screens, the first with a stack that has children
C35_Witness ==
    /\ pc = "done"
    /\ Len(screens) = 2
    /\ 2 \in DOMAIN heap
    /\ IsContainerObject(heap[2])
    /\ Len(heap[2].components) >= 1
    /\ Len(returned.screens[1].components) >= 1

-----------------------------------------------------------------------------
(* C36: navigation lines before and after a registered configuration.      *)

\* what a navigation line does: after a registered configuration only the
\* 'only one' diagnostic; before one, a tab_stack without names registers
\* nothing and any other navigation line is registered without a diagnostic
NavigationOutcome(ln) ==
    IF navigationStacks # <<>>
    THEN /\ Len(NewErrors) = 1
         /\ IsOnlyOneDiag(NewErrors[1])
         /\ NewErrors[1].lineNumber = ln
         /\ navigationStacks' = navigationStacks
    ELSE IF IsEmptyTabLine(ln)
    THEN navigationStacks' = <<>>
    ELSE /\ Len(navigationStacks') = 1
         /\ navigationStacks'[1].lineNumber = ln
         /\ NewErrors = <<>>

C36_Step ==
    pc = "loop" /\ LinesLeft
    /\ (IsNavLine(lineNumber + 1) \/ IsEmptyTabLine(lineNumber + 1))
        => NavigationOutcome(lineNumber + 1)

\* C36: a tab_stack line without tab names registers nothing and a later
\* navigation line is registered without an 'only one' diagnostic; a
\* navigation line, with or without tab names, that follows a registered
\* configuration adds the 'only one' diagnostic and nothing else.
C36_RegisteredOnly == [][C36_Step]_vars

C36_MatchedStep ==
    pc = "loop" /\ LinesLeft /\ IsNavLine(lineNumber + 1) => NavigationOutcome(lineNumber + 1)

\* the same for the navigation lines that match one of the three navigation
\* expressions, a bracket list of blanks and commas included
C36_MatchedNavigationLines == [][C36_MatchedStep]_vars

-----------------------------------------------------------------------------
(* C37: the screen switcher.                                                *)

Listed == parseOutput.result.screens

\* C37: in the single screen view the entry that the button of the i-th
\* listed screen selects is that i-th entry, also when several screens share
\* a name.
C37_EveryScreenSelectable ==
    viewMode = "singleScreen"
        => \A i \in 1..Len(Listed) : selected(Listed[i].name) = i

\* every entry that is the first of its name is the one its button selects
C37_FirstOfNameSelectable ==
    \A i \in 1..Len(Listed) :
        (\A j \in 1..(i - 1) : Listed[j].name # Listed[i].name) => selected(Listed[i].name) = i

\* the second of two screens of one name has been listed, and the active
\* screen is the first
C37_SharedNameListed ==
    /\ Len(Listed) = 2
    /\ Listed[1].name = Listed[2].name
    /\ activeScreen # Null
    /\ activeScreen.screen = Listed[1]

-----------------------------------------------------------------------------
(* C38: the parse effect comes to rest.                                     *)

NoTimerPending == timers = {}

\* nothing is left to run: no timer, no queued update, no effect that is due
\* and no timer callback in the middle of its setters
AtRest ==
    /\ NoTimerPending
    /\ updates = NoUpdates
    /\ callback = NoCallback
    /\ ~EffectDue

OutputIsCurrent == parseOutput.result = parseDsl(dslCode)

TextChanges == LatestText' # LatestText

\* C38: once the text has stopped changing, after finitely many parses no
\* timer is pending any more and nothing else is left to run, although a
\* parse that changes the name of the active screen starts another timer;
\* from then on the parse output is the parse of the current text.
C38_Quiescence == []<><<TextChanges>>_vars \/ <>[](AtRest /\ OutputIsCurrent)

\* once the text has stopped changing and the user has stopped selecting
\* screens and views, after finitely many parses no timer is pending any
\* more and nothing else is left to run, and from then on the parse output
\* is the parse of the current text
C38_QuiescenceUnselected ==
    \/ []<><<TextChanges>>_vars
    \/ []<><<UserSelects>>_vars
    \/ <>[](AtRest /\ OutputIsCurrent)

\* whenever nothing is left to run the parse output is the parse of the
\* current text
C38_CurrentAtRest == AtRest => OutputIsCurrent

\* the first parse made the first screen active, which started a second
\* timer; after the second parse nothing is left to run
C38_AtRestAfterTwoParses ==
    /\ parses = 2
    /\ dslCode = initialCode
    /\ AtRest
    /\ activeScreen # Null
    /\ activeScreen.parse = 2
    /\ OutputIsCurrent

-----------------------------------------------------------------------------
(* StoryboardCanvas: the nodes, their measured positions and the edges.    *)

\* the names of the screens scr
NamesOf(scr) == {scr[i].name : i \in 1..Len(scr)}

\* where the browser lays out the i-th node of the canvas: every node has a
\* place of its own, here the centre (i, 0)
NodeBox(i) == [centerX |-> i, centerY |-> 0]

\* screens.map((screen) => <div key=... ref=... id=...>): one node per screen
Nodes(scr) ==
    [i \in 1..Len(scr) |->
        [key |-> scr[i].name, title |-> scr[i].name, elements |-> Len(scr[i].components)]]

\* ref={el => { screenNodeRefs.current[screen.name] = el; }}, called for the
\* nodes in order: the node kept for a name is the last one of that name
screenNodeRefs(scr) ==
    [name \in NamesOf(scr) |->
        CHOOSE i \in 1..Len(scr) :
            scr[i].name = name /\ \A j \in (i + 1)..Len(scr) : scr[j].name # name]

\* the properties every object literal inherits from Object.prototype
ObjectPrototype ==
    {"constructor", "toString", "toLocaleString", "valueOf", "hasOwnProperty",
     "isPrototypeOf", "propertyIsEnumerable", "__proto__", "__defineGetter__",
     "__defineSetter__", "__lookupGetter__", "__lookupSetter__"}

\* the loop of useLayoutEffect: newPositions[screen.name] = the place of the
\* node kept for that name. The assignment to the name __proto__ sets the
\* prototype of newPositions and adds no key.
newPositions(scr) ==
    [name \in NamesOf(scr) \ {"__proto__"} |-> NodeBox(screenNodeRefs(scr)[name])]

\* useLayoutEffect, up to the render in which it sets nothing any more:
\* nodePositions is replaced when as many names were measured as there are
\* screens and the measurement differs from nodePositions
useLayoutEffect(scr, positions) ==
    IF /\ Cardinality(DOMAIN newPositions(scr)) = Len(scr) \/ Len(scr) = 0
       /\ positions # newPositions(scr) \/ Len(scr) # Cardinality(DOMAIN positions)
    THEN newPositions(scr)
    ELSE positions

\* what is not a number
NaN == [kind |-> "NaN"]
Num(n) == [kind |-> "number", value |-> n]

\* nodePositions[name]: the position under the key name; for a name that is
\* no key, the property inherited from Object.prototype or undefined
Inherited(name) == [inherited |-> name]
PositionOf(positions, name) ==
    IF name \in DOMAIN positions THEN positions[name]
    ELSE IF name \in ObjectPrototype THEN Inherited(name)
    ELSE Undefined

\* pos.centerX, pos.centerY of a position, undefined of an inherited property
CentreOf(positions, name) ==
    IF name \in DOMAIN positions
    THEN [x |-> Num(positions[name].centerX), y |-> Num(positions[name].centerY)]
    ELSE [x |-> Undefined, y |-> Undefined]

\* links.map((link, index) => ...): null unless both names give an object;
\* for two positions a line from the centre of the source towards the centre
\* of the destination, null when the two centres are the same; with an
\* inherited property for a position the distance is NaN, which is not 0,
\* and the line ends at (NaN, NaN)
LinkLine(lks, positions, index) ==
    LET link == lks[index + 1]
        sourcePos == PositionOf(positions, link.sourceScreenName)
        destPos == PositionOf(positions, link.destinationScreenName)
    IN  IF sourcePos # Undefined /\ destPos # Undefined
        THEN IF /\ link.sourceScreenName \in DOMAIN positions
                /\ link.destinationScreenName \in DOMAIN positions
             THEN LET dx == destPos.centerX - sourcePos.centerX
                      dy == destPos.centerY - sourcePos.centerY
                  IN  IF dx * dx + dy * dy = 0
                      THEN Null
                      ELSE [key |-> index, from |-> sourcePos, towards |-> destPos]
             ELSE [key |-> index,
                   x1 |-> CentreOf(positions, link.sourceScreenName).x,
                   y1 |-> CentreOf(positions, link.sourceScreenName).y,
                   x2 |-> NaN, y2 |-> NaN]
        ELSE Null

\* the svg element: absent while nodePositions has no key
Svg(lks, positions) ==
    IF Cardinality(DOMAIN positions) > 0
    THEN [k \in 1..Len(lks) |-> LinkLine(lks, positions, k - 1)]
    ELSE <<>>

\* the lines drawn
Edges(lks, positions) ==
    {Svg(lks, positions)[k] : k \in DOMAIN Svg(lks, positions)} \ {Null}

\* Parse results of texts with up to three screens, a screen declared twice,
\* a screen named __proto__, links between declared screens, to an
\* undeclared one, to itself and from the name of an inherited property
MaxCanvasLines == 4
CanvasLines == {"screen A", "screen B", "screen __proto__", "A -> B", "A -> A",
                "constructor -> A"}
CanvasResults == {parseDsl(c) : c \in Inputs(CanvasLines, MaxCanvasLines) \cup {""}}

\* StoryboardCanvas is mounted with the screens and links of a parse result
InitCanvas ==
    /\ ParserIdle
    /\ EditorAbsent
    /\ RendererAbsent
    /\ AppAbsent
    /\ \E result \in CanvasResults :
          /\ storyboard = [screens |-> result.screens, links |-> result.links]
          /\ nodePositions = useLayoutEffect(result.screens, NoPositions)

\* StoryboardCanvas is rendered with the screens and links of another parse
\* result, and its layout effect runs until nodePositions is stable
StoryboardRender(result) ==
    /\ storyboard' = [screens |-> result.screens, links |-> result.links]
    /\ nodePositions' = useLayoutEffect(result.screens, nodePositions)
    /\ UNCHANGED <<parserVars, editorVars, rendererVars, appVars>>

NextCanvas == \E result \in CanvasResults : StoryboardRender(result)

SpecCanvas == InitCanvas /\ [][NextCanvas]_vars

-----------------------------------------------------------------------------
(* C39: the storyboard graph.                                               *)

ShownNodes == Nodes(storyboard.screens)
ShownEdges == Edges(storyboard.links, nodePositions)

\* the places of the nodes of the screens called name
PlacesOfName(name) ==
    {NodeBox(i) : i \in {j \in 1..Len(storyboard.screens) : storyboard.screens[j].name = name}}

OneNodePerScreen ==
    /\ Len(ShownNodes) = Len(storyboard.screens)
    /\ \A i \in 1..Len(ShownNodes) : ShownNodes[i].title = storyboard.screens[i].name

\* nodePositions has the names of the current screens, each at the place of
\* a current node of that name
PositionsAreCurrent ==
    /\ DOMAIN nodePositions = NamesOf(storyboard.screens)
    /\ \A name \in DOMAIN nodePositions : nodePositions[name] \in PlacesOfName(name)

\* the k-th link is drawn once, from a node of its source to a node of its
\* destination
EdgeDrawn(k) ==
    LET link == storyboard.links[k]
    IN  /\ Cardinality({e \in ShownEdges : e.key = k - 1}) = 1
        /\ \A e \in ShownEdges : e.key = k - 1 =>
               /\ "from" \in DOMAIN e
               /\ e.from \in PlacesOfName(link.sourceScreenName)
               /\ e.towards \in PlacesOfName(link.destinationScreenName)

BothEndsDeclared(k) ==
    /\ storyboard.links[k].sourceScreenName \in NamesOf(storyboard.screens)
    /\ storyboard.links[k].destinationScreenName \in NamesOf(storyboard.screens)

\* C39: once the layout has settled the canvas shows one node per screen, the
\* positions are those of the current screens, and every link with both ends
\* declared is drawn as one edge, also when two screens share a name or a
\* link leads from a screen to itself.
C39_StoryboardGraph ==
    /\ OneNodePerScreen
    /\ PositionsAreCurrent
    /\ \A k \in 1..Len(storyboard.links) : BothEndsDeclared(k) => EdgeDrawn(k)

NamesDistinct ==
    \A i, j \in 1..Len(storyboard.screens) :
        storyboard.screens[i].name = storyboard.screens[j].name => i = j

\* every screen name becomes a key of newPositions
NamesAreKeys == "__proto__" \notin NamesOf(storyboard.screens)

\* with no name declared twice and no screen named __proto__: one node per
\* screen, current positions, and one edge for every link between two
\* different declared screens
C39_DistinctNamesGraph ==
    /\ OneNodePerScreen
    /\ NamesDistinct /\ NamesAreKeys =>
          /\ PositionsAreCurrent
          /\ \A k \in 1..Len(storyboard.links) :
                 /\ BothEndsDeclared(k)
                 /\ storyboard.links[k].sourceScreenName
                        # storyboard.links[k].destinationScreenName
                 => EdgeDrawn(k)

\* a link from a screen that has a position to itself is never drawn
C39_SelfLinkNotDrawn ==
    \A k \in 1..Len(storyboard.links) :
        /\ storyboard.links[k].sourceScreenName = storyboard.links[k].destinationScreenName
        /\ storyboard.links[k].sourceScreenName \in DOMAIN nodePositions
        => \A e \in ShownEdges : e.key # k - 1

\* a line is drawn from nowhere for a link whose source is no screen but the
\* name of a property that nodePositions inherits
C39_InheritedEndDrawn ==
    \E e \in ShownEdges :
        /\ "x2" \in DOMAIN e
        /\ e.x1 = Undefined
        /\ e.x2 = NaN
        /\ storyboard.links[e.key + 1].sourceScreenName \notin NamesOf(storyboard.screens)

\* the screen named __proto__ is shown and has no position
C39_ProtoUnplaced ==
    /\ ~NamesAreKeys
    /\ NamesDistinct
    /\ Len(storyboard.screens) = 2
    /\ nodePositions = NoPositions

\* two screens and a link between them, drawn after a render
C39_EdgeShown ==
    /\ Len(storyboard.screens) = 2
    /\ NamesDistinct
    /\ Len(storyboard.links) = 1
    /\ BothEndsDeclared(1)
    /\ EdgeDrawn(1)
====
